---- MODULE Spec2Model ----
(***************************************************************************)
(* Model of the vibe-logger TypeScript core: VibeLogger (logger.ts) and    *)
(* FileSystemManager (utils/fileSystem.ts).                                *)
(*                                                                         *)
(* A logging call builds an entry and hands it to addToMemory (a promise   *)
(* chain, memoryMutex) and to saveToFile (rotateFileIfNeeded, then         *)
(* appendToFile, whose writes are chained per resolved path in             *)
(* writeQueues).  Every step of the model is one event-loop turn: the      *)
(* synchronous part of a call, one promise-chain callback, or the          *)
(* completion of one filesystem request.                                   *)
(***************************************************************************)
EXTENDS Integers, Sequences, FiniteSets, TLC

\* ---------------------------------------------------------------- bounds
NumLoggers == 2
MaxCalls == 3
MaxCap == 2
MaxFileLines == 3
MaxLoads == 1
MaxClears == 1
MaxTime == 1
MaxEnvEvents == 2
OldLines == 2
LineBytes == 786432
MaxApiCalls == 2
MaxNodes == 2
MaxEnvSet == 2
MaxGiven == 2

FileSizeMb == 1

\* ------------------------------------------------------ program constants
BytesPerMb == 1024 * 1024

Loggers == 1..NumLoggers
Times == 0..MaxTime

VARIABLES
  config,        \* config[l]: the logger's resolved configuration (this.config)
  ensureDir,     \* ensureDir[l]: state of the constructor's ensureDirectory promise
  logs,          \* logs[l]: this.logs, a sequence of entry ids
  memoryMutex,   \* memoryMutex[l]: callbacks chained on this.memoryMutex, not yet run
  loads,         \* loads[l]: loadLogsFromFile calls whose file read is pending
  calls,         \* calls[c]: one logging call, c is its position in submission order
  writeQueues,   \* FileSystemManager.writeQueues: key -> last chained append
  timers,        \* armed 1000 ms clean-up timers, in the order they will fire
  dirExists,     \* the log directory exists
  dirCreatable,  \* mkdir of the log directory can succeed
  readOnly,      \* the directory currently refuses creation and rename
  active,        \* the file at the resolved log path
  rotated,       \* rotated[t]: the file at <path>.<timestamp t>
  now,           \* the wall clock (whole seconds) when it was last read
  correlationId, \* correlationId[l]: this.correlationId
  results,       \* the outcomes of the awaited calls made so far, oldest first
  saves,         \* saves[l]: the saveAllLogs call of logger l
  clientConfig,  \* clientConfig[l]: the object getConfig returned, as its caller left it
  rotateFailed,  \* calls whose rotateFileIfNeeded returned an unsuccessful result
  heap,          \* heap[n]: the properties of object n (0: the cached environment object)
  returned,      \* what the last query or construction returned, as its caller left it
  processEnv,    \* process.env: the VIBE_* environment variables
  history        \* bookkeeping used to state the properties

vars == <<config, ensureDir, logs, memoryMutex, loads, calls, writeQueues, timers,
          dirExists, dirCreatable, readOnly, active, rotated, now,
          correlationId, results, saves, clientConfig, rotateFailed,
          heap, returned, processEnv, history>>

memVars == <<logs, memoryMutex, loads>>
fsVars == <<dirExists, dirCreatable, readOnly, active, rotated, now>>
queueVars == <<writeQueues, timers>>
valueVars == <<heap, returned, processEnv>>
callerVars == <<correlationId, results, saves, clientConfig, valueVars>>
apiVars == <<callerVars, rotateFailed>>

\* ------------------------------------------------------------ sequences
Range(s) == {s[i] : i \in 1..Len(s)}

Min(a, b) == IF a < b THEN a ELSE b

Max(a, b) == IF a > b THEN a ELSE b

\* The last n elements of s (all of s when it is shorter).
Newest(n, s) == SubSeq(s, Len(s) - Min(n, Len(s)) + 1, Len(s))

\* ------------------------------------------------------------ paths
\* A path is the sequence of its segments; "." is the current directory.
RECURSIVE normalize(_)
normalize(p) ==
  IF p = <<>> THEN <<>>
  ELSE IF Head(p) = "." THEN normalize(Tail(p))
  ELSE <<Head(p)>> \o normalize(Tail(p))

\* path.resolve of a relative path: the working directory, then the
\* normalized segments.
resolve(p) == <<"cwd">> \o normalize(p)

LogFileOf(l) == IF l = 1 THEN <<"logs", "app.log">> ELSE <<".", "logs", "app.log">>

\* The correlation id each logger is configured with.
CorrelationIds == [l \in Loggers |-> IF l = 1 THEN "cid-1" ELSE "cid-2"]

\* ------------------------------------------------------------ memory store
\* Array.prototype.slice(start) with one argument.
slice(s, start) ==
  LET k == IF start < 0 THEN Max(Len(s) + start, 0) ELSE Min(start, Len(s))
  IN SubSeq(s, k + 1, Len(s))

\* Array.prototype.shift: drop the first element.
shift(s) == Tail(s)

ShiftNewest(s) == SubSeq(s, 1, Len(s) - 1)

\* The removal made when the store exceeds maxMemoryLogs.
trimOne(s) == shift(s)

AddRegardless(cfg, s, entry) ==
  LET pushed == Append(s, entry)
  IN IF Len(pushed) > cfg.maxMemoryLogs THEN trimOne(pushed) ELSE pushed

\* The callback addToMemory chains on memoryMutex.
addToMemoryStep(cfg, s, entry) ==
  IF cfg.keepLogsInMemory
  THEN LET pushed == Append(s, entry)
       IN IF Len(pushed) > cfg.maxMemoryLogs THEN trimOne(pushed) ELSE pushed
  ELSE s

\* The callback loadLogsFromFile chains on memoryMutex.
loadStep(cfg, s, loadedLogs) ==
  LET pushed == s \o loadedLogs
  IN IF Len(pushed) > cfg.maxMemoryLogs
     THEN slice(pushed, -cfg.maxMemoryLogs)
     ELSE pushed

\* getLogs() once memoryMutex has settled: a copy of this.logs.
getLogs(l) == logs[l]

KeepStore(s) == s

\* The callback clearLogs chains on memoryMutex: this.logs = [].
clearStep(s) == <<>>

\* A line of a JSONL file: <<kind, id>>.
FileLines ==
  {<<"entry", 11>>, <<"entry", 12>>, <<"garbage", 0>>, <<"null", 0>>, <<"number", 0>>,
   <<"partial", 0>>}

RECURSIVE SeqsUpTo(_, _)
SeqsUpTo(S, n) ==
  IF n = 0 THEN {<<>>}
  ELSE LET shorter == SeqsUpTo(S, n - 1)
       IN shorter \cup {Append(s, x) : s \in {t \in shorter : Len(t) = n - 1}, x \in S}

FileContents == SeqsUpTo(FileLines, MaxFileLines)

\* JSON.parse(line): raises for text that is no JSON.
JSONparse(line) == [threw |-> line[1] = "garbage", value |-> line]

AcceptParsed(line) == ~JSONparse(line).threw

\* The line is pushed: JSON.parse succeeds, reading a property of the value
\* does not raise (it does for null), and timestamp, level and operation are
\* truthy.  Both exceptions are caught and the line is skipped.
isLogEntry(line) ==
  LET logData == JSONparse(line)
  IN /\ ~logData.threw
     /\ logData.value[1] # "null"
     /\ logData.value[1] = "entry"

RECURSIVE parseLines(_)
parseLines(content) ==
  IF content = <<>> THEN <<>>
  ELSE IF isLogEntry(Head(content))
       THEN <<Head(content)[2]>> \o parseLines(Tail(content))
       ELSE parseLines(Tail(content))

\* ------------------------------------------------------------ files
NoFile == [exists |-> FALSE, lines |-> <<>>]

File(ls) == [exists |-> TRUE, lines |-> ls]

\* The file loadLogsFromFile is pointed at: missing, or with some lines.
ReadableFiles == {NoFile} \cup {File(content) : content \in FileContents}

\* FileSystemManager.readFileLines: the lines of the file, none when the
\* read fails.
linesOf(file) == IF file.exists THEN file.lines ELSE <<>>

OldFile == File([i \in 1..OldLines |-> 0])

\* stats.size / (1024 * 1024) <= maxSizeMb, in whole bytes.
withinLimit(sizeBytes, maxSizeMb) == sizeBytes <= maxSizeMb * BytesPerMb

\* fs.stat(...).size, 0 when stat fails.
getFileSize(f) == IF f.exists THEN Len(f.lines) * LineBytes ELSE 0

\* The handle of an in-flight append follows its file: a rename moves the
\* file it has open to the rotated name, and replaces the file that had
\* that name.
afterRename(fd, t) ==
  IF fd = <<"active">> THEN <<"rotated", t>>
  ELSE IF fd = <<"rotated", t>> THEN <<"orphan">>
  ELSE fd

afterUnlink(fd) == IF fd = <<"active">> THEN <<"orphan">> ELSE fd

\* ------------------------------------------------------------ event loop
\* Promise callbacks are microtasks: they all run before the event loop
\* handles the next filesystem completion or timer.
microtasksDrained == \A l \in Loggers : memoryMutex[l] = <<>>

\* ------------------------------------------------------------ write queue
QueueKeyRaw(filePath) == filePath

\* The key of writeQueues used by appendToFile.
QueueKey(filePath) == resolve(filePath)

getQueue(key) == IF key \in DOMAIN writeQueues THEN writeQueues[key] ELSE 0

SettlesOnResult(appendOk) == IF appendOk THEN "fulfilled" ELSE "rejected"

\* The promise of saveToFile once appendToFile has returned its result.
saveToFileSettles(appendOk) == "fulfilled"

Task(type, entry, entries) == [type |-> type, entry |-> entry, entries |-> entries]

\* ------------------------------------------------------------ logging call
\* No callback and no filesystem request of the call has run yet.
untouched(call) == call.mem = "pending" /\ call.ops = 0

\* The synchronous part of log / logException: the entry is built, the
\* add callback is chained on memoryMutex, and saveToFile either returns
\* at once (auto-save off) or starts rotateFileIfNeeded.
Log(l) ==
  /\ Len(calls) < MaxCalls
  /\ LET c == Len(calls) + 1
         persist == config[l].autoSave /\ config[l].logFile # <<>>
     IN /\ memoryMutex' = [memoryMutex EXCEPT ![l] = Append(@, Task("add", c, <<>>))]
        /\ calls' = Append(calls,
               [logger |-> l, mem |-> "pending",
                fpc |-> IF persist THEN "access" ELSE "done",
                saved |-> IF persist THEN "pending" ELSE "fulfilled",
                ts |-> 0, pred |-> 0, fd |-> <<"none">>, ops |-> 0, wrote |-> FALSE])
  /\ history' = [history EXCEPT !.burst = @ /\ \A c \in DOMAIN calls : untouched(calls[c])]
  /\ UNCHANGED <<config, ensureDir, logs, loads>>
  /\ UNCHANGED <<fsVars, queueVars, apiVars>>

ResolvesOnMemory(call) == call.mem = "done"

\* The promise log() returns has resolved: Promise.all of addToMemory and
\* saveToFile has, and the entry is returned.
logResolves(call) == call.mem = "done" /\ call.saved = "fulfilled"

\* A caller that awaits each logging call makes its next one.
LogAwaited(l) ==
  /\ \A c \in DOMAIN calls : logResolves(calls[c])
  /\ Log(l)

\* The next callback of the memoryMutex chain runs.
MemStep(l) ==
  /\ memoryMutex[l] # <<>>
  /\ LET t == Head(memoryMutex[l])
     IN /\ logs' = [logs EXCEPT ![l] =
                      CASE t.type = "add" -> addToMemoryStep(config[l], @, t.entry)
                        [] t.type = "load" -> loadStep(config[l], @, t.entries)
                        [] t.type = "clear" -> clearStep(@)]
        /\ calls' = IF t.type = "add" THEN [calls EXCEPT ![t.entry].mem = "done"] ELSE calls
  /\ memoryMutex' = [memoryMutex EXCEPT ![l] = Tail(@)]
  /\ UNCHANGED <<config, ensureDir, loads, history>>
  /\ UNCHANGED <<fsVars, queueVars, apiVars>>

\* loadLogsFromFile is called: the file read is started.
loadLogsFromFile(l) ==
  /\ history.loads[l] < MaxLoads
  /\ loads' = [loads EXCEPT ![l] = @ + 1]
  /\ history' = [history EXCEPT !.loads[l] = @ + 1]
  /\ UNCHANGED <<config, ensureDir, logs, memoryMutex, calls>>
  /\ UNCHANGED <<fsVars, queueVars, apiVars>>

\* The read of loadLogsFromFile completes, for a missing file or with some
\* content: the valid lines are parsed and the load callback is chained on
\* memoryMutex.
readFileLines(l) ==
  /\ microtasksDrained
  /\ loads[l] > 0
  /\ \E file \in ReadableFiles :
       /\ memoryMutex' = [memoryMutex EXCEPT ![l] =
                            Append(@, Task("load", 0, parseLines(linesOf(file))))]
       /\ history' = [history EXCEPT !.read[l] = file]
  /\ loads' = [loads EXCEPT ![l] = @ - 1]
  /\ UNCHANGED <<config, ensureDir, logs, calls>>
  /\ UNCHANGED <<fsVars, queueVars, apiVars>>

clearLogs(l) ==
  /\ history.clears[l] < MaxClears
  /\ memoryMutex' = [memoryMutex EXCEPT ![l] = Append(@, Task("clear", 0, <<>>))]
  /\ history' = [history EXCEPT !.clears[l] = @ + 1, !.cleared[l] = Len(calls)]
  /\ UNCHANGED <<config, ensureDir, logs, loads, calls>>
  /\ UNCHANGED <<fsVars, queueVars, apiVars>>

\* ------------------------------------------------------------ persistence
\* appendToFile, synchronous part: the write is chained on the queue of its
\* key and becomes the queue's new tail.  cs is calls with the rotation
\* step of c already recorded.
appendToFile(c, cs) ==
  LET key == QueueKey(config[cs[c].logger].logFile)
  IN /\ calls' = [cs EXCEPT ![c].fpc = "queued", ![c].pred = getQueue(key)]
     /\ writeQueues' = [k \in DOMAIN writeQueues \cup {key} |->
                          IF k = key THEN c ELSE writeQueues[k]]
     /\ history' = [history EXCEPT !.chainOrder = Append(@, c)]

\* rotateFileIfNeeded: fs.access completes.  A missing file ends the
\* rotation check and saveToFile goes on to appendToFile.
FsAccess(c) ==
  /\ microtasksDrained
  /\ calls[c].fpc = "access"
  /\ LET cs == [calls EXCEPT ![c].ops = @ + 1]
     IN IF active.exists
        THEN /\ calls' = [cs EXCEPT ![c].fpc = "stat"]
             /\ UNCHANGED <<writeQueues, history>>
        ELSE appendToFile(c, cs)
  /\ UNCHANGED <<config, ensureDir, timers>>
  /\ UNCHANGED <<memVars, fsVars, apiVars>>

\* rotateFileIfNeeded: fs.stat completes.  Within the limit the check
\* ends; above it the rotated name is built from the clock and fs.rename
\* is started.
FsStat(c) ==
  /\ microtasksDrained
  /\ calls[c].fpc = "stat"
  /\ LET cs == [calls EXCEPT ![c].ops = @ + 1]
     IN IF withinLimit(getFileSize(active), config[calls[c].logger].maxFileSizeMb)
        THEN /\ appendToFile(c, cs)
             /\ now' = now
        ELSE /\ \E t \in now..MaxTime : now' = t
             /\ calls' = [cs EXCEPT ![c].fpc = "rename", ![c].ts = now']
             /\ UNCHANGED <<writeQueues, history>>
  /\ UNCHANGED <<config, ensureDir, timers>>
  /\ UNCHANGED <<memVars, dirExists, dirCreatable, readOnly, active, rotated, apiVars>>

\* rotateFileIfNeeded: fs.rename completes (a failure is caught and
\* returned), then saveToFile goes on to appendToFile.
FsRename(c) ==
  /\ microtasksDrained
  /\ calls[c].fpc = "rename"
  /\ LET ok == active.exists /\ ~readOnly
         t == calls[c].ts
         cs == [d \in DOMAIN calls |->
                  [calls[d] EXCEPT !.ops = IF d = c THEN @ + 1 ELSE @,
                                   !.fd = IF ok THEN afterRename(@, t) ELSE @]]
     IN /\ active' = IF ok THEN NoFile ELSE active
        /\ rotated' = IF ok THEN [rotated EXCEPT ![t] = active] ELSE rotated
        /\ rotateFailed' = IF ok THEN rotateFailed ELSE rotateFailed \cup {c}
        /\ appendToFile(c, cs)
  /\ UNCHANGED <<config, ensureDir, timers, dirExists, dirCreatable, readOnly, now>>
  /\ UNCHANGED <<memVars, callerVars>>

SettledWithSuccess(pred) ==
  IF pred = 0 THEN TRUE ELSE calls[pred].fpc = "done" /\ calls[pred].wrote

\* The promise a write was chained on has settled (0: Promise.resolve()).
settled(pred) == IF pred = 0 THEN TRUE ELSE calls[pred].fpc = "done"

\* The queued write runs once the write it was chained on has settled:
\* fs.appendFile opens the path for appending, creating the file.  A
\* failure is caught and returned as an unsuccessful result.
FsOpen(c) ==
  /\ microtasksDrained
  /\ calls[c].fpc = "queued"
  /\ settled(calls[c].pred)
  /\ IF dirExists /\ ~readOnly
     THEN /\ active' = IF active.exists THEN active ELSE File(<<>>)
          /\ calls' = [calls EXCEPT ![c].fpc = "write", ![c].fd = <<"active">>,
                                    ![c].ops = @ + 1]
          /\ UNCHANGED timers
     ELSE /\ calls' = [calls EXCEPT ![c].fpc = "done", ![c].ops = @ + 1,
                                    ![c].saved = saveToFileSettles(FALSE)]
          /\ timers' = Append(timers, c)
          /\ UNCHANGED active
  /\ UNCHANGED <<config, ensureDir, writeQueues, history>>
  /\ UNCHANGED <<memVars, dirExists, dirCreatable, readOnly, rotated, now, apiVars>>

\* fs.appendFile writes the line through the handle it opened and closes
\* it; the clean-up timer of this write is armed.
FsWrite(c) ==
  /\ microtasksDrained
  /\ calls[c].fpc = "write"
  /\ LET fd == calls[c].fd
     IN /\ active' = IF fd = <<"active">> THEN File(Append(active.lines, c)) ELSE active
        /\ rotated' = IF fd[1] = "rotated"
                      THEN [rotated EXCEPT ![fd[2]] = File(Append(@.lines, c))]
                      ELSE rotated
  /\ calls' = [calls EXCEPT ![c].fpc = "done", ![c].fd = <<"none">>, ![c].ops = @ + 1,
                            ![c].wrote = TRUE, ![c].saved = saveToFileSettles(TRUE)]
  /\ timers' = Append(timers, c)
  /\ history' = [history EXCEPT !.writeOrder = Append(@, c)]
  /\ UNCHANGED <<config, ensureDir, writeQueues>>
  /\ UNCHANGED <<memVars, dirExists, dirCreatable, readOnly, now, apiVars>>

CleanupAlways(c) ==
  /\ microtasksDrained
  /\ timers # <<>>
  /\ c = Head(timers)
  /\ LET key == QueueKey(config[calls[c].logger].logFile)
     IN writeQueues' = [k \in DOMAIN writeQueues \ {key} |-> writeQueues[k]]
  /\ timers' = Tail(timers)
  /\ UNCHANGED <<config, ensureDir, calls, history>>
  /\ UNCHANGED <<memVars, fsVars, apiVars>>

\* The timer armed after a write fires: the map entry of the key is
\* deleted if it is still this write.
CleanupTimer(c) ==
  /\ microtasksDrained
  /\ timers # <<>>
  /\ c = Head(timers)
  /\ LET key == QueueKey(config[calls[c].logger].logFile)
     IN writeQueues' = IF getQueue(key) = c
                       THEN [k \in DOMAIN writeQueues \ {key} |-> writeQueues[k]]
                       ELSE writeQueues
  /\ timers' = Tail(timers)
  /\ UNCHANGED <<config, ensureDir, calls, history>>
  /\ UNCHANGED <<memVars, fsVars, apiVars>>

\* FileSystemManager.clearCompletedQueues() is called by the application:
\* the map of queues is emptied.
clearCompletedQueues ==
  /\ writeQueues # <<>>
  /\ writeQueues' = <<>>
  /\ UNCHANGED <<config, ensureDir, calls, timers, history>>
  /\ UNCHANGED <<memVars, fsVars, apiVars>>

\* The constructor's ensureDirectory settles: on failure auto-save is
\* switched off.
EnsureDirectoryDone(l) ==
  /\ microtasksDrained
  /\ ensureDir[l] = "pending"
  /\ LET ok == dirExists \/ (dirCreatable /\ ~readOnly)
     IN /\ dirExists' = ok
        /\ ensureDir' = [ensureDir EXCEPT ![l] = IF ok THEN "ok" ELSE "failed"]
        /\ config' = IF ok THEN config ELSE [config EXCEPT ![l].autoSave = FALSE]
  /\ UNCHANGED <<calls, history, dirCreatable, readOnly, active, rotated, now>>
  /\ UNCHANGED <<memVars, queueVars, apiVars>>

\* ------------------------------------------------------------ environment
\* The log file is deleted by another process.
ExternalUnlink ==
  /\ history.envEvents < MaxEnvEvents
  /\ active.exists
  /\ active' = NoFile
  /\ calls' = [d \in DOMAIN calls |-> [calls[d] EXCEPT !.fd = afterUnlink(@)]]
  /\ history' = [history EXCEPT !.envEvents = @ + 1]
  /\ UNCHANGED <<config, ensureDir, dirExists, dirCreatable, readOnly, rotated, now>>
  /\ UNCHANGED <<memVars, queueVars, apiVars>>

\* The directory becomes read-only, or writable again.
SetReadOnly ==
  /\ history.envEvents < MaxEnvEvents
  /\ readOnly' = ~readOnly
  /\ history' = [history EXCEPT !.envEvents = @ + 1]
  /\ UNCHANGED <<config, ensureDir, calls, dirExists, dirCreatable, active, rotated, now>>
  /\ UNCHANGED <<memVars, queueVars, apiVars>>

\* ------------------------------------------------------------ entries
\* A field that is undefined, and a rendering that raises.
Undefined == "<undefined>"

Throws == "<throws>"

LogLevels == {"INFO", "ERROR"}

Operations == {"", "op"}

Messages == {"", "msg"}

\* Date.prototype.toISOString of the clock value t.
toISOString(t) ==
  CASE t = 0 -> "1970-01-01T00:00:00.000Z"
    [] t = 1 -> "1970-01-01T00:00:01.000Z"
    [] OTHER -> "1970-01-01T00:00:02.000Z"

CreateWithFreshId(l, level, operation, message) ==
  [timestamp |-> toISOString(now), level |-> level, correlation_id |-> "cid-new",
   operation |-> operation, message |-> message, human_note |-> Undefined,
   stack_trace |-> IF level \in {"ERROR", "CRITICAL"} THEN "stack" ELSE Undefined]

\* createLogEntry with no options.
createLogEntry(l, level, operation, message) ==
  [timestamp |-> toISOString(now), level |-> level, correlation_id |-> correlationId[l],
   operation |-> operation, message |-> message, human_note |-> Undefined,
   stack_trace |-> IF level \in {"ERROR", "CRITICAL"} THEN "stack" ELSE Undefined]

getCorrelationId(l) == correlationId[l]

\* A thrown value: its kind, name and message when it is an Error, the
\* result of JSON.stringify(v) and of String(v).
Thrown(type, name, message, json, str) ==
  [type |-> type, name |-> name, message |-> message, json |-> json, str |-> str]

NoInput == Thrown("none", "", "", "", "")

ThrownValues ==
  { Thrown("Error", "TypeError", "boom", "{}", "TypeError: boom"),
    Thrown("Error", "Error", "", "{}", "Error"),
    Thrown("string", "", "", "\"boom\"", "boom"),
    Thrown("string", "", "", "\"\"", ""),
    Thrown("object", "", "", "{\"custom\":\"error\"}", "[object Object]"),
    Thrown("array", "", "", "[1]", "1"),
    Thrown("object", "", "", Throws, "[object Object]"),
    Thrown("number", "", "", "42", "42"),
    Thrown("boolean", "", "", "false", "false"),
    Thrown("null", "", "", "null", "null"),
    Thrown("undefined", "", "", Undefined, "undefined") }

\* typeof v.
typeof(v) == IF v.type \in {"Error", "object", "array", "null"} THEN "object" ELSE v.type

ErrorInfo(threw, name, message, stack) ==
  [threw |-> threw, name |-> name, message |-> message, stack |-> stack]

ExtractAsUnknown(error) == ErrorInfo(FALSE, "UnknownError", error.str, Undefined)

\* extractErrorInfo; threw: JSON.stringify raised and nothing was returned.
extractErrorInfo(error) ==
  IF error.type = "Error"
  THEN ErrorInfo(FALSE, error.name, error.message, "stack")
  ELSE IF typeof(error) = "string"
  THEN ErrorInfo(FALSE, "StringError", error.str, Undefined)
  ELSE IF typeof(error) = "object" /\ error.type # "null"
  THEN IF error.json = Throws
       THEN ErrorInfo(TRUE, "", "", Undefined)
       ELSE ErrorInfo(FALSE, "ObjectError", error.json, Undefined)
  ELSE ErrorInfo(FALSE, "UnknownError", error.str, Undefined)

\* The entry logException builds from the extracted error information.
exceptionEntry(l, operation, errorInfo) ==
  [timestamp |-> toISOString(now), level |-> "ERROR", correlation_id |-> correlationId[l],
   operation |-> operation, message |-> errorInfo.name \o ": " \o errorInfo.message,
   human_note |-> Undefined, stack_trace |-> errorInfo.stack]

NoEntry ==
  [timestamp |-> "", level |-> "", correlation_id |-> "", operation |-> "",
   message |-> "", human_note |-> Undefined, stack_trace |-> Undefined]

\* ------------------------------------------------------------ JSONL
\* JSON.stringify of an entry: the members whose value is undefined are
\* left out.  The text is represented by the object it denotes.
safeStringify(entry) == [k \in {f \in DOMAIN entry : entry[f] # Undefined} |-> entry[k]]

JsonLine(obj) == [kind |-> "json", value |-> obj]

BlankLine == [kind |-> "blank", value |-> [timestamp |-> ""]]

\* content.split('\n') of the text saveAllLogs writes: the renderings joined
\* by newlines, and one more newline.
contentOf(entries) ==
  IF entries = <<>> THEN <<BlankLine, BlankLine>>
  ELSE [i \in 1..Len(entries) |-> JsonLine(safeStringify(entries[i]))] \o <<BlankLine>>

\* logData[key] is truthy: present and not the empty string.
truthy(logData, key) == key \in DOMAIN logData /\ logData[key] # ""

\* The test loadLogsFromFile applies to a parsed line.
isProperLogEntry(logData) ==
  truthy(logData, "timestamp") /\ truthy(logData, "level") /\ truthy(logData, "operation")

\* The loadedLogs array: readFileLines skips blank lines, then the lines
\* that are proper entries are kept.
RECURSIVE loadedLogsOf(_)
loadedLogsOf(content) ==
  IF content = <<>> THEN <<>>
  ELSE LET line == Head(content)
       IN IF line.kind = "json" /\ isProperLogEntry(line.value)
          THEN <<line.value>> \o loadedLogsOf(Tail(content))
          ELSE loadedLogsOf(Tail(content))

\* ------------------------------------------------------------ awaited calls
\* The outcome of one awaited call; saved is the stage the logger's
\* saveAllLogs call was in when the call was made.
Result(l, method, input, outcome, entry) ==
  [logger |-> l, method |-> method, input |-> input, outcome |-> outcome,
   entry |-> entry, saved |-> saves[l].stage]

\* log (through info, error, ...) on a logger whose auto-save is off,
\* awaited: the entry is built, the add callback runs, saveToFile returns at
\* once and the entry is returned.
log(l, level, operation, message) ==
  /\ Len(results) < MaxApiCalls
  /\ ~config[l].autoSave
  /\ memoryMutex[l] = <<>>
  /\ LET entry == createLogEntry(l, level, operation, message)
     IN /\ logs' = [logs EXCEPT ![l] = addToMemoryStep(config[l], @, entry)]
        /\ results' = Append(results, Result(l, "log", NoInput, "returned", entry))
  /\ UNCHANGED <<config, ensureDir, memoryMutex, loads, calls, history>>
  /\ UNCHANGED <<fsVars, queueVars, correlationId, saves, clientConfig, rotateFailed, valueVars>>

\* logException on a logger whose auto-save is off, awaited.  When
\* extractErrorInfo raises, the promise rejects and no entry is built.
logException(l, operation, error) ==
  /\ Len(results) < MaxApiCalls
  /\ ~config[l].autoSave
  /\ memoryMutex[l] = <<>>
  /\ LET errorInfo == extractErrorInfo(error)
         entry == exceptionEntry(l, operation, errorInfo)
     IN IF errorInfo.threw
        THEN /\ results' = Append(results, Result(l, "logException", error, "rejected", NoEntry))
             /\ UNCHANGED logs
        ELSE /\ logs' = [logs EXCEPT ![l] = addToMemoryStep(config[l], @, entry)]
             /\ results' = Append(results, Result(l, "logException", error, "returned", entry))
  /\ UNCHANGED <<config, ensureDir, memoryMutex, loads, calls, history>>
  /\ UNCHANGED <<fsVars, queueVars, correlationId, saves, clientConfig, rotateFailed, valueVars>>

\* The read of loadLogsFromFile(logFile) completes: the lines of the file at
\* the log path are parsed and the load callback is chained on memoryMutex.
readSavedLines(l) ==
  /\ microtasksDrained
  /\ loads[l] > 0
  /\ LET content == IF active.exists THEN active.lines ELSE <<>>
     IN memoryMutex' = [memoryMutex EXCEPT ![l] = Append(@, Task("load", 0, loadedLogsOf(content)))]
  /\ loads' = [loads EXCEPT ![l] = @ - 1]
  /\ UNCHANGED <<config, ensureDir, logs, calls, history>>
  /\ UNCHANGED <<fsVars, queueVars, apiVars>>

SharedObject(cfg, written) == written

\* this.config after the caller of getConfig has written to the object it
\* received: getConfig returns a copy.
configAfterClientWrite(cfg, written) == cfg

\* getConfig is called and its caller sets autoSave on the returned object.
getConfig(l) ==
  /\ ~clientConfig[l].held
  /\ LET written == [config[l] EXCEPT !.autoSave = TRUE]
     IN /\ clientConfig' = [clientConfig EXCEPT ![l] = [held |-> TRUE, object |-> written]]
        /\ config' = [config EXCEPT ![l] = configAfterClientWrite(@, written)]
  /\ UNCHANGED <<ensureDir, calls, history, correlationId, results, saves, rotateFailed, valueVars>>
  /\ UNCHANGED <<memVars, fsVars, queueVars>>

\* ------------------------------------------------------------ saveAllLogs
NoSave == [stage |-> "none", snapshot |-> <<>>, content |-> <<>>, error |-> "none"]

SettlesQuietly(ok) == "fulfilled"

\* The promise of saveAllLogs once ensureDirectory or writeFile has returned.
saveAllLogsSettles(ok) == IF ok THEN "fulfilled" ELSE "rejected"

\* saveAllLogs() is called: the target is the configured log file, and the
\* call waits for memoryMutex.
saveAllLogs(l) ==
  /\ saves[l].stage = "none"
  /\ config[l].logFile # <<>>
  /\ saves' = [saves EXCEPT ![l].stage = "mutex"]
  /\ UNCHANGED <<config, ensureDir, calls, history, correlationId, results, clientConfig,
                 rotateFailed, valueVars>>
  /\ UNCHANGED <<memVars, fsVars, queueVars>>

\* The text saveAllLogs writes is built from this.logs.
saveContent(l, save) ==
  [save EXCEPT !.stage = "write", !.snapshot = logs[l], !.content = contentOf(logs[l])]

\* memoryMutex has settled: ensureDirectory is started, or with createDirs
\* off the content is built and writeFile is started.
SaveMutexDone(l) ==
  /\ saves[l].stage = "mutex"
  /\ memoryMutex[l] = <<>>
  /\ saves' = [saves EXCEPT ![l] = IF config[l].createDirs
                                     THEN [@ EXCEPT !.stage = "mkdir"]
                                     ELSE saveContent(l, @)]
  /\ UNCHANGED <<config, ensureDir, calls, history, correlationId, results, clientConfig,
                 rotateFailed, valueVars>>
  /\ UNCHANGED <<memVars, fsVars, queueVars>>

\* ensureDirectory of saveAllLogs completes: on failure the call rejects,
\* otherwise the content is built and writeFile is started.
SaveEnsureDirectory(l) ==
  /\ microtasksDrained
  /\ saves[l].stage = "mkdir"
  /\ LET ok == dirExists \/ (dirCreatable /\ ~readOnly)
     IN /\ dirExists' = ok
        /\ saves' = [saves EXCEPT ![l] =
                       IF ok THEN saveContent(l, @)
                       ELSE [@ EXCEPT !.stage = saveAllLogsSettles(FALSE),
                                      !.error = "directory"]]
  /\ UNCHANGED <<config, ensureDir, calls, history, correlationId, results, clientConfig,
                 rotateFailed, valueVars, dirCreatable, readOnly, active, rotated, now>>
  /\ UNCHANGED <<memVars, queueVars>>

\* writeFile of saveAllLogs completes: the file at the log path holds the
\* content, or the call rejects.
SaveWriteFile(l) ==
  /\ microtasksDrained
  /\ saves[l].stage = "write"
  /\ LET ok == dirExists /\ ~readOnly
     IN /\ active' = IF ok THEN File(saves[l].content) ELSE active
        /\ saves' = [saves EXCEPT ![l].stage = saveAllLogsSettles(ok),
                                  ![l].error = IF ok THEN "none" ELSE "write"]
  /\ UNCHANGED <<config, ensureDir, calls, history, correlationId, results, clientConfig,
                 rotateFailed, valueVars, dirExists, dirCreatable, readOnly, rotated, now>>
  /\ UNCHANGED <<memVars, queueVars>>

\* ensureDirectory of saveAllLogs completes on a logger whose store holds
\* the ids of its calls: on failure the call rejects, otherwise the content
\* is one line per stored entry and writeFile is started.
SaveStoredCalls(l) ==
  /\ microtasksDrained
  /\ saves[l].stage = "mkdir"
  /\ LET ok == dirExists \/ (dirCreatable /\ ~readOnly)
     IN /\ dirExists' = ok
        /\ saves' = [saves EXCEPT ![l] =
                       IF ok THEN [@ EXCEPT !.stage = "write", !.snapshot = logs[l],
                                            !.content = logs[l]]
                       ELSE [@ EXCEPT !.stage = saveAllLogsSettles(FALSE),
                                      !.error = "directory"]]
  /\ UNCHANGED <<config, ensureDir, calls, history, correlationId, results, clientConfig,
                 rotateFailed, valueVars, dirCreatable, readOnly, active, rotated, now>>
  /\ UNCHANGED <<memVars, queueVars>>

\* ------------------------------------------------------------ configuration
DEFAULT_CONFIG ==
  [correlationId |-> "", logFile |-> "", autoSave |-> TRUE, maxFileSizeMb |-> 10,
   keepLogsInMemory |-> TRUE, maxMemoryLogs |-> 1000, createDirs |-> TRUE]

\* process.env: a variable holds a string or is undefined; at most MaxEnvSet
\* variables are set.
ProcessEnvs ==
  {env \in [VIBE_CORRELATION_ID : {Undefined, "env-id"},
            VIBE_LOG_FILE : {Undefined, "env.log"},
            VIBE_AUTO_SAVE : {Undefined, "false", "TRUE", "yes"},
            VIBE_MAX_FILE_SIZE_MB : {Undefined, "5", "0", "abc"},
            VIBE_KEEP_LOGS_IN_MEMORY : {Undefined, "false"},
            VIBE_MAX_MEMORY_LOGS : {Undefined, "0", "-1", "7"},
            VIBE_CREATE_DIRS : {Undefined, "false"}] :
     Cardinality({v \in DOMAIN env : env[v] # Undefined}) <= MaxEnvSet}

NoEnv ==
  [VIBE_CORRELATION_ID |-> Undefined, VIBE_LOG_FILE |-> Undefined,
   VIBE_AUTO_SAVE |-> Undefined, VIBE_MAX_FILE_SIZE_MB |-> Undefined,
   VIBE_KEEP_LOGS_IN_MEMORY |-> Undefined, VIBE_MAX_MEMORY_LOGS |-> Undefined,
   VIBE_CREATE_DIRS |-> Undefined]

\* The options object given to the constructor: the keys it has (at most
\* MaxGiven), and their values.
NoOptions ==
  [given |-> {},
   values |-> [correlationId |-> "opt-id", logFile |-> "opt.log", autoSave |-> FALSE,
               maxFileSizeMb |-> 20, keepLogsInMemory |-> FALSE, maxMemoryLogs |-> 50,
               createDirs |-> FALSE]]

\* The value of a numeric option that holds no number: undefined, NaN, or
\* a text that is no number.  Every comparison with it is false.
NaN == 2147483647

ConstructorOptions ==
  {o \in [given : SUBSET DOMAIN DEFAULT_CONFIG,
          values : [correlationId : {"", "opt-id"}, logFile : {"opt.log"},
                    autoSave : BOOLEAN, maxFileSizeMb : {0, -1, 20, NaN},
                    keepLogsInMemory : {FALSE}, maxMemoryLogs : {0, -1, 50, NaN},
                    createDirs : {FALSE}]] :
     /\ Cardinality(o.given) <= MaxGiven
     /\ \A k \in DOMAIN DEFAULT_CONFIG \ o.given : o.values[k] = NoOptions.values[k]}

\* str.charAt(i - 1).
charAt(str, i) == SubSeq(str, i, i)

\* String.prototype.toLowerCase, letter by letter.
RECURSIVE toLowerCase(_)
toLowerCase(str) ==
  IF str = "" THEN ""
  ELSE LET upper == "ABCDEFGHIJKLMNOPQRSTUVWXYZ"
           lower == "abcdefghijklmnopqrstuvwxyz"
           ch == charAt(str, 1)
           at == {i \in 1..26 : charAt(upper, i) = ch}
       IN (IF at = {} THEN ch ELSE charAt(lower, CHOOSE i \in at : TRUE))
            \o toLowerCase(SubSeq(str, 2, Len(str)))

isDigit(ch) == \E d \in 1..10 : charAt("0123456789", d) = ch

\* The value of the decimal digits of str from position i on, up to the
\* first character that is no digit.
RECURSIVE digitsFrom(_, _, _)
digitsFrom(str, i, acc) ==
  IF i > Len(str) \/ ~isDigit(charAt(str, i)) THEN acc
  ELSE digitsFrom(str, i + 1,
                  acc * 10 + (CHOOSE d \in 1..10 : charAt("0123456789", d) = charAt(str, i)) - 1)

\* parseInt(str, 10): an optional minus sign and the leading digits; NaN
\* when there is no digit.
parseInt(str) ==
  LET negative == Len(str) > 0 /\ charAt(str, 1) = "-"
      start == IF negative THEN 2 ELSE 1
      isNaN == start > Len(str) \/ ~isDigit(charAt(str, start))
  IN [isNaN |-> isNaN,
      value |-> IF isNaN THEN 0
                ELSE (IF negative THEN -1 ELSE 1) * digitsFrom(str, start, 0)]

\* A string variable is applied when it is truthy, a boolean one when it is
\* defined, a numeric one when it is truthy and parses to a number within
\* the bound.
loadFromEnvironment(cfg, env) ==
  LET size == parseInt(env.VIBE_MAX_FILE_SIZE_MB)
      count == parseInt(env.VIBE_MAX_MEMORY_LOGS)
  IN [correlationId |-> IF env.VIBE_CORRELATION_ID \notin {Undefined, ""}
                        THEN env.VIBE_CORRELATION_ID ELSE cfg.correlationId,
      logFile |-> IF env.VIBE_LOG_FILE \notin {Undefined, ""}
                  THEN env.VIBE_LOG_FILE ELSE cfg.logFile,
      autoSave |-> IF env.VIBE_AUTO_SAVE # Undefined
                   THEN toLowerCase(env.VIBE_AUTO_SAVE) = "true" ELSE cfg.autoSave,
      maxFileSizeMb |-> IF /\ env.VIBE_MAX_FILE_SIZE_MB \notin {Undefined, ""}
                           /\ ~size.isNaN /\ size.value > 0
                        THEN size.value ELSE cfg.maxFileSizeMb,
      keepLogsInMemory |-> IF env.VIBE_KEEP_LOGS_IN_MEMORY # Undefined
                           THEN toLowerCase(env.VIBE_KEEP_LOGS_IN_MEMORY) = "true"
                           ELSE cfg.keepLogsInMemory,
      maxMemoryLogs |-> IF /\ env.VIBE_MAX_MEMORY_LOGS \notin {Undefined, ""}
                           /\ ~count.isNaN /\ count.value >= 0
                        THEN count.value ELSE cfg.maxMemoryLogs,
      createDirs |-> IF env.VIBE_CREATE_DIRS # Undefined
                     THEN toLowerCase(env.VIBE_CREATE_DIRS) = "true" ELSE cfg.createDirs]

\* Object.assign(this.config, options).
assign(cfg, options) ==
  [k \in DOMAIN cfg |-> IF k \in options.given THEN options.values[k] ELSE cfg[k]]

generateCorrelationId == "vibe-0-r4nd0m"

generateDefaultLogFile == "/cwd/logs/vibe_19700101_000000.log"

generateDefaults(cfg) ==
  [cfg EXCEPT !.correlationId = IF @ = "" THEN generateCorrelationId ELSE @,
              !.logFile = IF @ = "" THEN generateDefaultLogFile ELSE @]

EnvironmentWins(env, options) ==
  generateDefaults(loadFromEnvironment(assign(DEFAULT_CONFIG, options), env))

\* new VibeLoggerConfigManager(options).getConfig().
resolveConfig(env, options) ==
  generateDefaults(assign(loadFromEnvironment(DEFAULT_CONFIG, env), options))

ValidateNothing(cfg) == {}

\* validate(): the errors of a resolved configuration.
validate(cfg) ==
  {e \in {"maxFileSizeMb must be greater than 0", "maxMemoryLogs must be non-negative",
          "correlationId cannot be empty", "logFile cannot be empty"} :
     \/ e = "maxFileSizeMb must be greater than 0"
          /\ cfg.maxFileSizeMb # NaN /\ cfg.maxFileSizeMb <= 0
     \/ e = "maxMemoryLogs must be non-negative"
          /\ cfg.maxMemoryLogs # NaN /\ cfg.maxMemoryLogs < 0
     \/ e = "correlationId cannot be empty" /\ cfg.correlationId = ""
     \/ e = "logFile cannot be empty" /\ cfg.logFile = ""}

NoConstruction ==
  [method |-> "none", argument |-> NoOptions,
   value |-> [kind |-> "none", config |-> DEFAULT_CONFIG, errors |-> {}]]

StartsBeforeValidation(cfg, errors) == cfg.autoSave /\ cfg.createDirs

StartsWithoutAutoSave(cfg, errors) == errors = {} /\ cfg.createDirs

\* The constructor goes on to start ensureDirectory: validation has passed
\* and auto-save and createDirs are on.
startsEnsureDirectory(cfg, errors) == errors = {} /\ cfg.autoSave /\ cfg.createDirs

\* new VibeLogger(options): the configuration is resolved and validated;
\* the constructor throws when validate() reports an error, and otherwise
\* starts ensureDirectory when auto-save and createDirs are on.
VibeLogger(options) ==
  /\ returned.method = "none"
  /\ LET cfg == resolveConfig(processEnv, options)
         errors == validate(cfg)
     IN /\ returned' = [method |-> "constructor", argument |-> options,
                        value |-> [kind |-> IF errors = {} THEN "logger" ELSE "thrown",
                                   config |-> cfg, errors |-> errors]]
        /\ ensureDir' = IF startsEnsureDirectory(cfg, errors)
                        THEN [ensureDir EXCEPT ![1] = "pending"]
                        ELSE ensureDir
  /\ UNCHANGED <<config, calls, history, heap, processEnv>>
  /\ UNCHANGED <<memVars, fsVars, queueVars>>
  /\ UNCHANGED <<correlationId, results, saves, clientConfig, rotateFailed>>

\* ------------------------------------------------------------ object values
\* The values a caller can put in a context: objects are nodes of a heap,
\* each with the properties a and b; a property holds a string, a BigInt,
\* nothing, or a reference to an object.
Nodes == 1..MaxNodes

EnvironmentObject == 0

String == <<"string", 0>>

BigIntValue == <<"bigint", 0>>

Missing == <<"undefined", 0>>

\* A fresh object literal {}.
EmptyObject == <<"literal", 0>>

Ref(n) == <<"object", n>>

\* EnvironmentCollector.collect(): one cached object of strings.
EnvironmentInfo == [a |-> String, b |-> Missing]

Heaps ==
  {h \in [{EnvironmentObject} \cup Nodes ->
            [a : {String, BigIntValue} \cup {Ref(n) : n \in Nodes},
             b : {Missing} \cup {Ref(n) : n \in Nodes}]] :
     h[EnvironmentObject] = EnvironmentInfo}

NoHeap == [n \in {EnvironmentObject} \cup Nodes |-> EnvironmentInfo]

\* Parsed JSON text.
Leaf(text) == [kind |-> "string", text |-> text]

Omitted == [kind |-> "omitted"]

Obj(a, b) == [kind |-> "object", a |-> a, b |-> b]

CircularReference == Leaf("[Circular Reference]")

Fallback == [kind |-> "fallback", error |-> "Failed to serialize log entry"]

\* JSON.stringify(value, replacer) with the replacer of safeStringify: seen
\* is the WeakSet, filled in traversal order and never emptied.  A BigInt
\* makes JSON.stringify raise.
RECURSIVE stringifyValue(_, _, _)
stringifyValue(h, value, seen) ==
  CASE value[1] = "string" -> [out |-> Leaf("s"), seen |-> seen, threw |-> FALSE]
    [] value[1] = "undefined" -> [out |-> Omitted, seen |-> seen, threw |-> FALSE]
    [] value[1] = "literal" -> [out |-> Obj(Omitted, Omitted), seen |-> seen, threw |-> FALSE]
    [] value[1] = "bigint" -> [out |-> Omitted, seen |-> seen, threw |-> TRUE]
    [] value[1] = "object" ->
         IF value[2] \in seen
         THEN [out |-> CircularReference, seen |-> seen, threw |-> FALSE]
         ELSE LET a == stringifyValue(h, h[value[2]].a, seen \cup {value[2]})
                  b == IF a.threw THEN [a EXCEPT !.out = Omitted]
                       ELSE stringifyValue(h, h[value[2]].b, a.seen)
              IN [out |-> Obj(a.out, b.out), seen |-> b.seen, threw |-> b.threw]

\* An entry with the members createLogEntry takes from the options and from
\* the logger: context is options.context || {}.
withOptions(entry, context) ==
  [k \in DOMAIN entry \cup {"context", "environment"} |->
     CASE k = "context" -> context
       [] k = "environment" -> Ref(EnvironmentObject)
       [] OTHER -> entry[k]]

\* The members of an entry that hold a string or undefined.
Scalars(entry) == DOMAIN entry \ {"context", "environment"}

\* JSON.stringify of one entry object inside a traversal that has seen the
\* objects in seen: context is visited before environment.
stringifyEntry(h, entry, seen) ==
  LET c == stringifyValue(h, entry.context, seen)
      e == IF c.threw THEN c ELSE stringifyValue(h, entry.environment, c.seen)
      kept == {k \in Scalars(entry) : entry[k] # Undefined}
  IN [out |-> [k \in kept \cup {"kind", "context", "environment"} |->
                 CASE k = "kind" -> "entry"
                   [] k = "context" -> c.out
                   [] k = "environment" -> e.out
                   [] OTHER -> entry[k]],
      seen |-> e.seen, threw |-> e.threw]

\* The text holds the marker somewhere.
RECURSIVE HasMarker(_)
HasMarker(tree) ==
  \/ tree = CircularReference
  \/ tree.kind = "object" /\ (HasMarker(tree.a) \/ HasMarker(tree.b))

SerializeWithoutReplacer(h, entry) ==
  LET r == stringifyEntry(h, entry, {})
  IN IF r.threw \/ HasMarker(r.out.context) THEN Fallback ELSE r.out

\* safeStringify(entry): a new WeakSet for the call, and the fallback object
\* when JSON.stringify raises.
safeStringifyObject(h, entry) ==
  LET r == stringifyEntry(h, entry, {})
  IN IF r.threw THEN Fallback ELSE r.out

\* An array, returned as such or as JSON text.
Array(items) == [kind |-> "array", items |-> items]

NoReturn == [method |-> "none", argument |-> "", value |-> Array(<<>>), left |-> Array(<<>>)]

\* The variables of object values and construction are not in use.
noValues ==
  /\ heap = NoHeap
  /\ returned = NoReturn
  /\ processEnv = NoEnv

\* info(operation, "msg", { context }) on a logger whose auto-save is on,
\* awaited by a caller that makes one call at a time: the entry is built and
\* stored, saveToFile rotates the file when it is over the limit and appends
\* the line, and the entry is returned.
logWithContext(l, operation, context) ==
  /\ Len(results) < MaxApiCalls
  /\ config[l].autoSave
  /\ ensureDir[l] # "pending"
  /\ memoryMutex[l] = <<>>
  /\ LET entry == withOptions(createLogEntry(l, "INFO", operation, "msg"), context)
         jsonLine == JsonLine(safeStringifyObject(heap, entry))
         rotate == /\ active.exists /\ ~readOnly
                   /\ ~withinLimit(getFileSize(active), config[l].maxFileSizeMb)
         ok == dirExists /\ ~readOnly
     IN /\ logs' = [logs EXCEPT ![l] = addToMemoryStep(config[l], @, entry)]
        /\ \E t \in now..MaxTime :
             /\ now' = IF rotate THEN t ELSE now
             /\ rotated' = IF rotate THEN [rotated EXCEPT ![t] = active] ELSE rotated
        /\ active' = IF ok
                     THEN File(Append(IF rotate THEN <<>> ELSE active.lines, jsonLine))
                     ELSE active
        /\ results' = Append(results, Result(l, "log", NoInput, "returned", entry))
  /\ UNCHANGED <<config, ensureDir, memoryMutex, loads, calls, history>>
  /\ UNCHANGED <<dirExists, dirCreatable, readOnly, queueVars>>
  /\ UNCHANGED <<correlationId, saves, clientConfig, rotateFailed, valueVars>>

\* info(operation, "msg", { context }) on a logger whose auto-save is on,
\* not awaited: the synchronous part builds the entry, which holds the
\* caller's context object itself, hands it to addToMemory and starts the
\* rotation check of saveToFile.  The returned promise is pending.
logDeferred(l, operation, context) ==
  /\ Len(results) < MaxApiCalls
  /\ config[l].autoSave
  /\ ensureDir[l] # "pending"
  /\ memoryMutex[l] = <<>>
  /\ returned.method = "none"
  /\ LET entry == withOptions(createLogEntry(l, "INFO", operation, "msg"), context)
     IN /\ logs' = [logs EXCEPT ![l] = addToMemoryStep(config[l], @, entry)]
        /\ returned' = [method |-> "log", argument |-> operation, value |-> entry,
                        left |-> Array(<<>>)]
        /\ history' = [history EXCEPT !.atCall = safeStringifyObject(heap, entry)]
  /\ UNCHANGED <<config, ensureDir, memoryMutex, loads, calls>>
  /\ UNCHANGED <<fsVars, queueVars, heap, processEnv>>
  /\ UNCHANGED <<correlationId, results, saves, clientConfig, rotateFailed>>

\* The caller assigns a property of one of its objects.
callerWrites(n, value) ==
  /\ heap[n].a # value
  /\ heap' = [heap EXCEPT ![n].a = value]
  /\ UNCHANGED <<config, ensureDir, calls, history, returned, processEnv>>
  /\ UNCHANGED <<memVars, fsVars, queueVars>>
  /\ UNCHANGED <<correlationId, results, saves, clientConfig, rotateFailed>>

\* The rotation check of the pending call has completed: saveToFile
\* serializes the entry, appends the line, and the promise resolves with
\* the entry.
saveDeferred(l) ==
  /\ returned.method = "log"
  /\ LET entry == returned.value
         jsonLine == JsonLine(safeStringifyObject(heap, entry))
         rotate == /\ active.exists /\ ~readOnly
                   /\ ~withinLimit(getFileSize(active), config[l].maxFileSizeMb)
         ok == dirExists /\ ~readOnly
     IN /\ \E t \in now..MaxTime :
             /\ now' = IF rotate THEN t ELSE now
             /\ rotated' = IF rotate THEN [rotated EXCEPT ![t] = active] ELSE rotated
        /\ active' = IF ok
                     THEN File(Append(IF rotate THEN <<>> ELSE active.lines, jsonLine))
                     ELSE active
        /\ results' = Append(results, Result(l, "log", NoInput, "returned", entry))
  /\ returned' = NoReturn
  /\ UNCHANGED <<config, ensureDir, calls, history, heap, processEnv>>
  /\ UNCHANGED <<memVars, dirExists, dirCreatable, readOnly, queueVars>>
  /\ UNCHANGED <<correlationId, saves, clientConfig, rotateFailed>>

\* ------------------------------------------------------------ exception context
\* The thrown values logException is given here.
ExceptionSamples == {v \in ThrownValues : v.type \in {"Error", "string", "null"}}

\* The context objects a caller passes: any of three keys, two of them named
\* like the keys logException sets.
CallerContexts ==
  {[k \in K |-> CASE k = "userId" -> "user-1"
                  [] k = "error_type" -> "mine"
                  [] k = "original_error" -> Thrown("string", "", "", "\"mine\"", "mine")] :
     K \in SUBSET {"userId", "error_type", "original_error"}}

CallerKeysWin(context, errorInfo, error) ==
  [k \in DOMAIN context \cup {"error_type", "original_error"} |->
     IF k \in DOMAIN context THEN context[k]
     ELSE IF k = "error_type" THEN errorInfo.name ELSE error]

\* { ...(options.context || {}), error_type, original_error }.
exceptionContext(context, errorInfo, error) ==
  [k \in DOMAIN context \cup {"error_type", "original_error"} |->
     CASE k = "error_type" -> errorInfo.name
       [] k = "original_error" -> error
       [] OTHER -> context[k]]

\* The caller's context object after the call: the spread copied it.
contextAfterCall(context, merged) == context

\* logException(operation, error, { context }) on a logger whose auto-save
\* is off, awaited.
logExceptionWithContext(l, operation, error, context) ==
  /\ Len(results) < MaxApiCalls
  /\ ~config[l].autoSave
  /\ memoryMutex[l] = <<>>
  /\ LET errorInfo == extractErrorInfo(error)
         merged == exceptionContext(context, errorInfo, error)
         entry == withOptions(exceptionEntry(l, operation, errorInfo), merged)
     IN /\ ~errorInfo.threw
        /\ logs' = [logs EXCEPT ![l] = addToMemoryStep(config[l], @, entry)]
        /\ results' = Append(results, Result(l, "logException", error, "returned", entry))
        /\ returned' = [method |-> "logException", argument |-> context,
                        value |-> [kind |-> "context", context |-> merged],
                        left |-> [kind |-> "context",
                                  context |-> contextAfterCall(context, merged)]]
  /\ UNCHANGED <<config, ensureDir, memoryMutex, loads, calls, history>>
  /\ UNCHANGED <<fsVars, queueVars, heap, processEnv>>
  /\ UNCHANGED <<correlationId, saves, clientConfig, rotateFailed>>

\* ------------------------------------------------------------ queries
OperationNames == {"op", "open", "x"}

\* The operationFilter argument: left out, empty, or a substring.
OperationFilters == {Undefined, "", "op", "pe"}

\* String.prototype.includes.
includes(str, sub) ==
  \E i \in 0..(Len(str) - Len(sub)) : SubSeq(str, i + 1, i + Len(sub)) = sub

\* The array getLogs and getLogsForAI work on: this.logs.filter(...) when
\* the filter is truthy.
filterLogs(entries, operationFilter) ==
  IF operationFilter \in {Undefined, ""} THEN entries
  ELSE SelectSeq(entries, LAMBDA entry : includes(entry.operation, operationFilter))

\* JSON.stringify of the elements of an array in one traversal.
RECURSIVE stringifyEntries(_, _, _)
stringifyEntries(h, entries, seen) ==
  IF entries = <<>> THEN [out |-> <<>>, seen |-> seen, threw |-> FALSE]
  ELSE LET first == stringifyEntry(h, Head(entries), seen)
           rest == IF first.threw THEN [first EXCEPT !.out = <<>>]
                   ELSE stringifyEntries(h, Tail(entries), first.seen)
       IN [out |-> <<first.out>> \o rest.out, seen |-> rest.seen, threw |-> rest.threw]

\* safeStringify(logsToReturn): one WeakSet for the whole array.
safeStringifyArray(h, entries) ==
  LET r == stringifyEntries(h, entries, {})
  IN IF r.threw THEN Fallback ELSE Array(r.out)

CallerSharesArray(stored, written) == written

\* this.logs after the caller of getLogs has changed the array it received.
logsAfterCallerWrite(stored, written) == stored

\* getLogs(operationFilter) is called with the memory chain idle, and its
\* caller removes the first element of the array it received.
getLogsFiltered(l, operationFilter) ==
  /\ memoryMutex[l] = <<>>
  /\ LET value == filterLogs(logs[l], operationFilter)
         written == IF value = <<>> THEN <<>> ELSE Tail(value)
     IN /\ returned' = [method |-> "getLogs", argument |-> operationFilter,
                        value |-> Array(value), left |-> Array(written)]
        /\ logs' = [logs EXCEPT ![l] =
                      IF operationFilter \in {Undefined, ""}
                      THEN logsAfterCallerWrite(@, written)
                      ELSE @]
  /\ UNCHANGED <<config, ensureDir, memoryMutex, loads, calls, history>>
  /\ UNCHANGED <<fsVars, queueVars, heap, processEnv>>
  /\ UNCHANGED <<correlationId, results, saves, clientConfig, rotateFailed>>

\* getLogsForAI(operationFilter) is called with the memory chain idle.
getLogsForAI(l, operationFilter) ==
  /\ memoryMutex[l] = <<>>
  /\ LET value == safeStringifyArray(heap, filterLogs(logs[l], operationFilter))
     IN returned' = [method |-> "getLogsForAI", argument |-> operationFilter,
                     value |-> value, left |-> value]
  /\ UNCHANGED <<config, ensureDir, calls, history>>
  /\ UNCHANGED <<memVars, fsVars, queueVars, heap, processEnv>>
  /\ UNCHANGED <<correlationId, results, saves, clientConfig, rotateFailed>>

\* ------------------------------------------------------------ specifications
Config(auto, dirs, keep, cap, l) ==
  [correlationId |-> CorrelationIds[l], autoSave |-> auto, createDirs |-> dirs,
   keepLogsInMemory |-> keep, maxMemoryLogs |-> cap, maxFileSizeMb |-> FileSizeMb,
   logFile |-> LogFileOf(l)]

\* The fields the constructor sets from the resolved configuration.
constructed ==
  /\ correlationId = [l \in Loggers |-> config[l].correlationId]
  /\ clientConfig = [l \in Loggers |-> [held |-> FALSE, object |-> config[l]]]

NoHistory ==
  [writeOrder |-> <<>>, chainOrder |-> <<>>, envEvents |-> 0, burst |-> TRUE,
   loads |-> [l \in Loggers |-> 0], clears |-> [l \in Loggers |-> 0],
   cleared |-> [l \in Loggers |-> 0], read |-> [l \in Loggers |-> NoFile],
   atCall |-> Fallback]

InitIdle ==
  /\ logs = [l \in Loggers |-> <<>>]
  /\ memoryMutex = [l \in Loggers |-> <<>>]
  /\ loads = [l \in Loggers |-> 0]
  /\ calls = <<>>
  /\ writeQueues = <<>>
  /\ timers = <<>>
  /\ readOnly = FALSE
  /\ rotated = [t \in Times |-> NoFile]
  /\ now = 0
  /\ results = <<>>
  /\ saves = [l \in Loggers |-> NoSave]
  /\ rotateFailed = {}
  /\ history = NoHistory

InitCommon ==
  /\ InitIdle
  /\ noValues

\* Loggers constructed with auto-save off: the memory store alone.
InitMem ==
  /\ InitCommon
  /\ \E keep \in BOOLEAN, cap \in 0..MaxCap :
       config = [l \in Loggers |-> Config(FALSE, TRUE, keep, cap, l)]
  /\ constructed
  /\ ensureDir = [l \in Loggers |-> "none"]
  /\ dirExists = TRUE
  /\ dirCreatable = TRUE
  /\ active = NoFile

NextMem ==
  \E l \in {1} :
    \/ Log(l)
    \/ MemStep(l)
    \/ loadLogsFromFile(l)
    \/ readFileLines(l)
    \/ clearLogs(l)

SpecMem == InitMem /\ [][NextMem]_vars

\* Loggers just constructed with auto-save and createDirs on, all on the
\* same log file: ensureDirectory is pending.
Init ==
  /\ InitCommon
  /\ config = [l \in Loggers |-> Config(TRUE, l = 1, TRUE, MaxCap, l)]
  /\ constructed
  /\ ensureDir = [l \in Loggers |->
                   IF config[l].autoSave /\ config[l].createDirs THEN "pending" ELSE "none"]
  /\ dirExists \in BOOLEAN
  /\ dirCreatable \in BOOLEAN
  /\ dirExists => dirCreatable
  /\ active \in {NoFile, OldFile}
  /\ active.exists => dirExists

Next ==
  \/ \E l \in Loggers : Log(l)
  \/ \E l \in Loggers : MemStep(l)
  \/ \E l \in Loggers : EnsureDirectoryDone(l)
  \/ \E c \in DOMAIN calls : FsAccess(c)
  \/ \E c \in DOMAIN calls : FsStat(c)
  \/ \E c \in DOMAIN calls : FsRename(c)
  \/ \E c \in DOMAIN calls : FsOpen(c)
  \/ \E c \in DOMAIN calls : FsWrite(c)
  \/ \E c \in DOMAIN calls : CleanupTimer(c)

Spec == Init /\ [][Next]_vars

\* One logger while another process deletes the log file or the directory
\* turns read-only and writable again.
NextEnv ==
  \/ Log(1)
  \/ MemStep(1)
  \/ EnsureDirectoryDone(1)
  \/ \E c \in DOMAIN calls : FsAccess(c)
  \/ \E c \in DOMAIN calls : FsStat(c)
  \/ \E c \in DOMAIN calls : FsRename(c)
  \/ \E c \in DOMAIN calls : FsOpen(c)
  \/ \E c \in DOMAIN calls : FsWrite(c)
  \/ \E c \in DOMAIN calls : CleanupTimer(c)
  \/ ExternalUnlink
  \/ SetReadOnly

SpecEnv == Init /\ [][NextEnv]_vars

\* One logger under fair scheduling: every pending promise callback and
\* every started filesystem request eventually completes.
NextLive ==
  \/ Log(1)
  \/ MemStep(1)
  \/ EnsureDirectoryDone(1)
  \/ \E c \in DOMAIN calls : FsAccess(c)
  \/ \E c \in DOMAIN calls : FsStat(c)
  \/ \E c \in DOMAIN calls : FsRename(c)
  \/ \E c \in DOMAIN calls : FsOpen(c)
  \/ \E c \in DOMAIN calls : FsWrite(c)
  \/ \E c \in DOMAIN calls : CleanupTimer(c)

Fairness ==
  /\ WF_vars(MemStep(1))
  /\ WF_vars(EnsureDirectoryDone(1))
  /\ \A c \in 1..MaxCalls :
       /\ WF_vars(c \in DOMAIN calls /\ FsAccess(c))
       /\ WF_vars(c \in DOMAIN calls /\ FsStat(c))
       /\ WF_vars(c \in DOMAIN calls /\ FsRename(c))
       /\ WF_vars(c \in DOMAIN calls /\ FsOpen(c))
       /\ WF_vars(c \in DOMAIN calls /\ FsWrite(c))
       /\ WF_vars(c \in DOMAIN calls /\ CleanupTimer(c))

SpecLive == Init /\ [][NextLive]_vars /\ Fairness

\* Loggers whose auto-save is off by configuration (auto FALSE), or is
\* switched off because the log directory cannot be created at construction
\* (auto TRUE: its parent is read-only and may become writable later).
InitCallers(auto) ==
  /\ config = [l \in Loggers |-> Config(auto, TRUE, TRUE, MaxCap, l)]
  /\ ensureDir = [l \in Loggers |-> IF auto THEN "pending" ELSE "none"]
  /\ readOnly = auto
  /\ dirExists = ~auto
  /\ constructed
  /\ dirCreatable = TRUE
  /\ active = NoFile
  /\ logs = [l \in Loggers |-> <<>>]
  /\ memoryMutex = [l \in Loggers |-> <<>>]
  /\ loads = [l \in Loggers |-> 0]
  /\ calls = <<>>
  /\ writeQueues = <<>>
  /\ timers = <<>>
  /\ rotated = [t \in Times |-> NoFile]
  /\ now = 0
  /\ results = <<>>
  /\ saves = [l \in Loggers |-> NoSave]
  /\ rotateFailed = {}
  /\ noValues
  /\ history = NoHistory

\* Awaited calls with every kind of input: logger 1 logs and saves, logger
\* 2 is a fresh instance that loads the file at the log path.
InitApi == InitCallers(FALSE)

NextApi ==
  \/ \E level \in LogLevels, operation \in Operations, message \in Messages :
       log(1, level, operation, message)
  \/ \E operation \in Operations, error \in ThrownValues : logException(1, operation, error)
  \/ saveAllLogs(1)
  \/ SaveMutexDone(1)
  \/ SaveEnsureDirectory(1)
  \/ SaveWriteFile(1)
  \/ loadLogsFromFile(2)
  \/ readSavedLines(2)
  \/ MemStep(2)

SpecApi == InitApi /\ [][NextApi]_vars

StringError == Thrown("string", "", "", "\"boom\"", "boom")

\* The life of a logger after construction: every operation of the
\* interface, while the directory turns writable and read-only again.
InitFallback == \E auto \in BOOLEAN : InitCallers(auto)

NextFallback ==
  \/ \E l \in Loggers : EnsureDirectoryDone(l)
  \/ log(1, "INFO", "op", "msg")
  \/ logException(1, "op", StringError)
  \/ clearLogs(1)
  \/ saveAllLogs(1)
  \/ SaveMutexDone(1)
  \/ SaveEnsureDirectory(1)
  \/ SaveWriteFile(1)
  \/ loadLogsFromFile(2)
  \/ readSavedLines(2)
  \/ \E l \in Loggers : MemStep(l)
  \/ \E l \in Loggers : getConfig(l)
  \/ (\A l \in Loggers : ensureDir[l] # "pending") /\ SetReadOnly

SpecFallback == InitFallback /\ [][NextFallback]_vars

\* A logger with auto-save on whose directory exists, used by one caller
\* that awaits every call; the contexts it logs are objects of a heap.
InitJson ==
  /\ InitIdle
  /\ config = [l \in Loggers |-> Config(TRUE, FALSE, TRUE, MaxCap, l)]
  /\ ensureDir = [l \in Loggers |-> "none"]
  /\ constructed
  /\ heap \in Heaps
  /\ returned = NoReturn
  /\ processEnv = NoEnv
  /\ dirExists = TRUE
  /\ dirCreatable = TRUE
  /\ active = NoFile

NextJson ==
  \/ \E operation \in OperationNames, context \in {EmptyObject, Ref(1)} :
       logWithContext(1, operation, context)
  \/ \E operationFilter \in OperationFilters : getLogsFiltered(1, operationFilter)
  \/ \E operationFilter \in OperationFilters : getLogsForAI(1, operationFilter)

SpecJson == InitJson /\ [][NextJson]_vars

\* Construction: process.env holds some VIBE_* variables and a logger is
\* constructed with some options.
InitConfig ==
  /\ InitIdle
  /\ config = [l \in Loggers |-> Config(FALSE, TRUE, TRUE, MaxCap, l)]
  /\ ensureDir = [l \in Loggers |-> "none"]
  /\ constructed
  /\ heap = NoHeap
  /\ returned = NoConstruction
  /\ processEnv \in ProcessEnvs
  /\ dirExists = TRUE
  /\ dirCreatable = TRUE
  /\ active = NoFile

NextConfig == \E options \in ConstructorOptions : VibeLogger(options)

SpecConfig == InitConfig /\ [][NextConfig]_vars

\* logException with caller contexts, on a logger whose auto-save is off.
NextException ==
  \E error \in ExceptionSamples, context \in CallerContexts :
    logExceptionWithContext(1, "op", error, context)

SpecException == InitApi /\ [][NextException]_vars

\* One logger whose application also calls clearCompletedQueues.
NextQueues ==
  \/ NextLive
  \/ clearCompletedQueues

SpecQueues == Init /\ [][NextQueues]_vars

\* One logger with auto-save on whose application also calls saveAllLogs()
\* with no path: the target is the file the appends go to.
NextSave ==
  \/ NextLive
  \/ saveAllLogs(1)
  \/ SaveMutexDone(1)
  \/ SaveStoredCalls(1)
  \/ SaveWriteFile(1)

SpecSave == Init /\ [][NextSave]_vars

\* A caller that does not await its logging call and writes to the context
\* object it passed.
NextDeferred ==
  \/ \E context \in {EmptyObject, Ref(1)} : logDeferred(1, "op", context)
  \/ \E value \in {String, BigIntValue, Ref(1)} : callerWrites(1, value)
  \/ saveDeferred(1)

SpecDeferred == InitJson /\ [][NextDeferred]_vars

\* One logger and one caller that awaits every logging call.
NextAwait ==
  \/ LogAwaited(1)
  \/ MemStep(1)
  \/ EnsureDirectoryDone(1)
  \/ \E c \in DOMAIN calls : FsAccess(c)
  \/ \E c \in DOMAIN calls : FsStat(c)
  \/ \E c \in DOMAIN calls : FsRename(c)
  \/ \E c \in DOMAIN calls : FsOpen(c)
  \/ \E c \in DOMAIN calls : FsWrite(c)
  \/ \E c \in DOMAIN calls : CleanupTimer(c)

SpecAwait == Init /\ [][NextAwait]_vars

\* One logger constructed with auto-save on or off: the constructor has
\* started ensureDirectory only with auto-save and createDirs on.
InitOptional ==
  /\ InitCommon
  /\ \E auto \in BOOLEAN :
       config = [l \in Loggers |-> Config(auto, TRUE, TRUE, MaxCap, l)]
  /\ constructed
  /\ ensureDir = [l \in Loggers |->
                   IF l = 1 /\ startsEnsureDirectory(config[l], {}) THEN "pending" ELSE "none"]
  /\ dirExists \in BOOLEAN
  /\ dirCreatable \in BOOLEAN
  /\ dirExists => dirCreatable
  /\ active \in {NoFile, OldFile}
  /\ active.exists => dirExists

SpecOptional == InitOptional /\ [][NextLive]_vars

\* ============================================================ properties
CallIds == [i \in 1..Len(calls) |-> i]

\* The calls of logger l whose add callback has run, in submission order.
Stored(l) == SelectSeq(CallIds, LAMBDA c : calls[c].logger = l /\ calls[c].mem = "done")

Resolved(c) == calls[c].mem = "done" /\ calls[c].fpc = "done"

OnlyLogging(l) == history.loads[l] = 0 /\ history.clears[l] = 0

\* C1: with the memory store enabled and only logging calls made, the store
\* never holds more than maxMemoryLogs entries and holds exactly the newest
\* min(n, maxMemoryLogs) of the n entries added so far, in submission order.
C1_BoundedFifo ==
  \A l \in Loggers :
    (config[l].keepLogsInMemory /\ OnlyLogging(l)) =>
      /\ Len(logs[l]) <= config[l].maxMemoryLogs
      /\ logs[l] = Newest(config[l].maxMemoryLogs, Stored(l))

\* An eviction has happened: more entries were added than the cap allows.
C1_Witness ==
  \E l \in Loggers :
    /\ config[l].keepLogsInMemory /\ OnlyLogging(l)
    /\ config[l].maxMemoryLogs >= 1
    /\ Len(Stored(l)) > config[l].maxMemoryLogs
    /\ memoryMutex[l] = <<>>

\* C2: when the load callback of loadLogsFromFile runs, the store afterwards
\* holds at most maxMemoryLogs entries, the newest of the previous store
\* followed by the valid lines of the file.
C2_LoadRespectsCap ==
  [][\A l \in Loggers :
       (/\ memoryMutex[l] # <<>>
        /\ Head(memoryMutex[l]).type = "load"
        /\ memoryMutex'[l] = Tail(memoryMutex[l]))
       => /\ Len(logs'[l]) <= config[l].maxMemoryLogs
          /\ logs'[l] = Newest(config[l].maxMemoryLogs,
                               logs[l] \o Head(memoryMutex[l]).entries)]_vars

\* C3: lines are written in submission order: of two calls whose appends
\* both succeeded, the earlier call's line was written first.
C3_WriteOrderIsSubmissionOrder ==
  \A i, j \in 1..Len(history.writeOrder) :
    i < j => history.writeOrder[i] < history.writeOrder[j]

\* A call between its existence check and the end of its append.
InSequence(c) == calls[c].ops > 0 /\ calls[c].fpc # "done"

\* C4: at most one rotation-and-append sequence is in flight: while a call
\* is between its existence check and the end of its append, no other call
\* has executed a file operation of its own unfinished sequence.
C4_OneSequenceInFlight ==
  \A c, d \in DOMAIN calls : (InSequence(c) /\ InSequence(d)) => c = d

\* C5: a rotated file holds the content written up to the crossing of the
\* threshold, so every rotated file is larger than maxFileSizeMb.
C5_RotatedHoldsPreThreshold ==
  \A t \in Times :
    rotated[t].exists => ~withinLimit(getFileSize(rotated[t]), FileSizeMb)

\* C6: the write of an append never adds bytes to a rotated file; it lands
\* in the file at the original path.
C6_NoAppendToRotated ==
  [][\A c \in DOMAIN calls :
       (calls[c].fpc = "write" /\ calls'[c].fpc = "done")
       => /\ rotated' = rotated
          /\ active' = File(Append(active.lines, c))]_vars

\* The write callback of the append has been invoked and has not settled.
InProgress(c) ==
  \/ calls[c].fpc = "write"
  \/ calls[c].fpc = "queued" /\ settled(calls[c].pred)

HasStarted(c) == calls[c].fpc \in {"write", "done"}

\* C7: at most one append to the path is in progress, and an append has
\* started only if the append queued just before it has completed.
C7_OneAppendPerPath ==
  /\ Cardinality({c \in DOMAIN calls : InProgress(c)}) <= 1
  /\ \A i \in 2..Len(history.chainOrder) :
       HasStarted(history.chainOrder[i]) =>
         calls[history.chainOrder[i - 1]].fpc = "done"

\* An append of one logger is being written while an append of another
\* logger waits behind it in the queue.
C7_Witness ==
  \E c, d \in DOMAIN calls :
    /\ calls[c].fpc = "write"
    /\ calls[d].fpc = "queued" /\ calls[d].pred = c
    /\ calls[c].logger # calls[d].logger

NewLines(f) == SelectSeq(f.lines, LAMBDA x : x # 0)

\* C8: when MaxCalls calls were issued on one logger in one burst, the
\* directory could be created and no rotation took place, then once all
\* have resolved the store holds min(N, maxMemoryLogs) entries and the file
\* holds one line per call.
C8_BurstKeepsEveryLine ==
  \A l \in Loggers :
    (/\ Len(calls) = MaxCalls
     /\ history.burst
     /\ \A c \in DOMAIN calls : calls[c].logger = l /\ Resolved(c)
     /\ ensureDir[l] = "ok"
     /\ \A t \in Times : ~rotated[t].exists)
    => /\ Len(logs[l]) = Min(MaxCalls, config[l].maxMemoryLogs)
       /\ Len(NewLines(active)) = MaxCalls
       /\ Range(NewLines(active)) = DOMAIN calls

\* C9: no logging call rejects, and a resolved call's entry is in the store
\* (until newer entries evict it), whatever filesystem request failed.
C9_LoggingNeverRejects ==
  \A c \in DOMAIN calls :
    LET l == calls[c].logger
    IN /\ calls[c].saved # "rejected"
       /\ Resolved(c) =>
            \/ c \in Range(logs[l])
            \/ /\ Len(logs[l]) = config[l].maxMemoryLogs
               /\ \A e \in Range(logs[l]) : e > c

\* A call resolved although its append failed after the directory turned
\* read-only, and its entry is in the store.
C9_Witness ==
  \E c \in DOMAIN calls :
    /\ Resolved(c) /\ calls[c].saved = "fulfilled"
    /\ calls[c].ops > 0 /\ ~calls[c].wrote
    /\ readOnly /\ dirExists
    /\ c \in Range(logs[calls[c].logger])

\* C10: once the constructor's directory creation has failed, no call of
\* that logger performs a filesystem request.
C10_DisabledIsNoOp ==
  [][\A l \in Loggers :
       ensureDir[l] = "failed" =>
         \A c \in DOMAIN calls :
           calls[c].logger = l => calls'[c].ops = calls[c].ops]_vars

\* C11: a logger whose directory creation failed at construction has
\* auto-save off from then on, whatever operation is performed on it: logging
\* calls, saveAllLogs, loadLogsFromFile, clearLogs, getConfig and a write to
\* the object getConfig returned.
C11_MemoryOnlyIsOneWay ==
  \A l \in Loggers : ensureDir[l] = "failed" => ~config[l].autoSave

\* After the failure the directory became writable, saveAllLogs succeeded,
\* entries were logged and cleared, the caller of getConfig set autoSave on
\* the returned object, and the second failed logger loaded the file.
C11_Witness ==
  /\ ensureDir[1] = "failed" /\ ensureDir[2] = "failed"
  /\ saves[1].stage = "fulfilled"
  /\ results # <<>>
  /\ history.clears[1] > 0 /\ memoryMutex[1] = <<>>
  /\ clientConfig[1].held /\ clientConfig[1].object.autoSave
  /\ history.loads[2] > 0 /\ loads[2] = 0 /\ memoryMutex[2] = <<>>

\* C12: with keepLogsInMemory off, getLogs() is empty after any number of
\* logging calls.
C12_DisabledStoreIgnoresLogging ==
  \A l \in Loggers :
    (~config[l].keepLogsInMemory /\ history.loads[l] = 0) => getLogs(l) = <<>>

\* Two logging calls on a disabled store with room for entries have run
\* their add callbacks.
C12_Witness ==
  /\ ~config[1].keepLogsInMemory /\ config[1].maxMemoryLogs >= 1
  /\ history.loads[1] = 0
  /\ Len(Stored(1)) >= 2 /\ memoryMutex[1] = <<>>

\* C13: with keepLogsInMemory off, getLogs() is empty after any sequence of
\* operations, loadLogsFromFile of a file with valid entries included.
C13_DisabledStoreAlwaysEmpty ==
  \A l \in Loggers : ~config[l].keepLogsInMemory => getLogs(l) = <<>>

ComparedFields == {"timestamp", "level", "correlation_id", "operation", "message"}

Compared(entries) == [i \in DOMAIN entries |-> [k \in ComparedFields |-> entries[i][k]]]

\* C14: when a fresh logger reads the file saveAllLogs has written, the
\* entries it parses are the saved entries, in order, with the same
\* timestamp, level, correlation_id, operation and message, and its load
\* callback leaves exactly these entries in the store.
C14_RoundTrip ==
  [][/\ (/\ loads'[2] < loads[2]
         /\ saves[1].stage = "fulfilled"
         /\ active = File(saves[1].content))
        => Compared(memoryMutex'[2][Len(memoryMutex'[2])].entries)
             = Compared(saves[1].snapshot)
     /\ (/\ memoryMutex[2] # <<>>
         /\ memoryMutex'[2] = Tail(memoryMutex[2])
         /\ Head(memoryMutex[2]).type = "load"
         /\ logs[2] = <<>>
         /\ Len(Head(memoryMutex[2]).entries) <= config[2].maxMemoryLogs)
        => logs'[2] = Head(memoryMutex[2]).entries]_vars

\* C15: saveAllLogs rejects exactly when its directory creation or its write
\* failed, and fulfils only after writing the file; none of its steps
\* changes the store or the configuration; and a log call made after the
\* rejection returns its entry, which is then the newest entry of the store.
C15_SaveAllLogsSurfacesFailure ==
  /\ [](\A l \in Loggers :
          /\ saves[l].stage = "rejected" <=> saves[l].error # "none"
          /\ saves[l].stage = "fulfilled" =>
               /\ saves[l].error = "none"
               /\ saves[l].content = contentOf(saves[l].snapshot))
  /\ [][/\ \A l \in Loggers :
             saves'[l] # saves[l] => (logs' = logs /\ config' = config)
        /\ \A l \in Loggers :
             (/\ saves'[l].stage = "fulfilled"
              /\ saves[l].stage # "fulfilled") => active' = File(saves[l].content)
        /\ (Len(results') > Len(results) /\ results'[Len(results')].method = "log") =>
             LET r == results'[Len(results')]
             IN r.saved = "rejected" =>
                  /\ r.outcome = "returned"
                  /\ logs'[r.logger] # <<>>
                  /\ logs'[r.logger][Len(logs'[r.logger])] = r.entry]_vars

\* saveAllLogs was rejected because the write failed after the directory
\* had been created, and a later log call returned an entry that is in the
\* store.
C15_Witness ==
  /\ saves[1].stage = "rejected" /\ saves[1].error = "write"
  /\ \E i \in DOMAIN results :
       /\ results[i].method = "log" /\ results[i].saved = "rejected"
       /\ results[i].outcome = "returned"
       /\ \E j \in DOMAIN logs[1] : logs[1][j] = results[i].entry

\* C16: under fair scheduling every logging call resolves without
\* rejecting, and a call submitted with persistence enabled gets its rotation
\* check and then an attempt to append its line, also behind an append that
\* failed.
C16_EveryCallCompletes ==
  \A c \in 1..MaxCalls :
    /\ (c \in DOMAIN calls)
         ~> (c \in DOMAIN calls /\ Resolved(c) /\ calls[c].saved = "fulfilled")
    /\ (c \in DOMAIN calls /\ calls[c].fpc = "access")
         ~> (c \in DOMAIN calls /\ calls[c].fpc = "done" /\ calls[c].ops >= 2)

\* A call has completed whose append was chained on an append that failed.
C16_Witness ==
  \E c \in DOMAIN calls :
    /\ calls[c].pred # 0
    /\ calls[calls[c].pred].fpc = "done" /\ ~calls[calls[c].pred].wrote
    /\ Resolved(c) /\ calls[c].ops >= 2

\* C17: when the rename of a rotation fails, the call is not rejected and
\* goes on to queue its append; with a writable directory the append opens
\* (creating it when missing) the file at the log path, and its write puts
\* the line into the file at that path unless that file was deleted from
\* outside in between.
C17_FailedRotationStillAppends ==
  [][\A c \in DOMAIN calls :
       /\ (calls[c].fpc = "rename" /\ c \in rotateFailed' /\ c \notin rotateFailed)
            => (calls'[c].fpc = "queued" /\ calls'[c].saved # "rejected")
       /\ (/\ c \in rotateFailed
           /\ calls[c].fpc = "queued" /\ calls'[c].fpc # "queued"
           /\ dirExists /\ ~readOnly)
            => (calls'[c].fpc = "write" /\ active'.exists)
       /\ (/\ c \in rotateFailed
           /\ calls[c].fpc = "write" /\ calls'[c].fpc = "done"
           /\ calls[c].fd # <<"orphan">>)
            => (/\ calls'[c].saved = "fulfilled"
                /\ active'.exists
                /\ c \in Range(active'.lines))]_vars

Returned(i) ==
  results[i].method \in {"log", "logException"} /\ results[i].outcome = "returned"

\* C18: every entry a logger has returned carries the value of
\* getCorrelationId(), and that value is the one the logger was constructed
\* with, whatever operations have been performed.
C18_OneCorrelationId ==
  /\ \A l \in Loggers : getCorrelationId(l) = CorrelationIds[l]
  /\ \A i \in DOMAIN results :
       Returned(i) => results[i].entry.correlation_id = getCorrelationId(results[i].logger)

\* A log call and a logException call have both returned entries, and the
\* logger has been cleared, saved and asked for its configuration.
C18_Witness ==
  /\ \E i, j \in DOMAIN results :
       /\ Returned(i) /\ results[i].method = "log"
       /\ Returned(j) /\ results[j].method = "logException"
  /\ history.clears[1] > 0
  /\ saves[1].stage \in {"fulfilled", "rejected"}
  /\ clientConfig[1].held

\* The name and message the claim gives for a thrown value.
ExpectedName(v) ==
  CASE v.type = "Error" -> v.name
    [] v.type = "string" -> "StringError"
    [] v.type \in {"object", "array"} -> "ObjectError"
    [] OTHER -> "UnknownError"

ExpectedMessage(v) ==
  CASE v.type = "Error" -> v.message
    [] v.type = "string" -> v.str
    [] v.type \in {"object", "array"} -> v.json
    [] OTHER -> v.str

\* C19: an entry returned by logException(operation, v) has level ERROR and
\* the message "<name>: <message>" with (v.name, v.message) for an Error,
\* ("StringError", v) for a string, ("ObjectError", JSON of v) for another
\* non-null object and ("UnknownError", String(v)) for everything else.
C19_ExceptionMessage ==
  \A i \in DOMAIN results :
    (results[i].method = "logException" /\ results[i].outcome = "returned") =>
      /\ results[i].entry.level = "ERROR"
      /\ results[i].entry.operation \in Operations
      /\ results[i].entry.message =
           ExpectedName(results[i].input) \o ": " \o ExpectedMessage(results[i].input)

\* logException has returned entries for null and for a plain object.
C19_Witness ==
  \E i, j \in DOMAIN results :
    /\ results[i].method = "logException" /\ results[i].outcome = "returned"
    /\ results[i].input.type = "null"
    /\ results[j].method = "logException" /\ results[j].outcome = "returned"
    /\ results[j].input.type = "object"
    /\ results[j].entry.message = "ObjectError: {\"custom\":\"error\"}"

\* C20: logException never rejects: for every thrown value it returns an
\* entry of level ERROR.
C20_NormalizationNeverRaises ==
  \A i \in DOMAIN results :
    results[i].method = "logException" =>
      (results[i].outcome = "returned" /\ results[i].entry.level = "ERROR")

\* C21: every entry of level ERROR or CRITICAL that a logging call returns
\* carries a stack trace, for log calls and for logException with every kind
\* of thrown value.
C21_ErrorEntriesCarryStack ==
  \A i \in DOMAIN results :
    (Returned(i) /\ results[i].entry.level \in {"ERROR", "CRITICAL"}) =>
      results[i].entry.stack_trace # Undefined

\* The objects a property refers to, and those reachable from a value.
Succ(h, n) == {m \in Nodes : h[n].a = Ref(m) \/ h[n].b = Ref(m)}

RECURSIVE ReachFrom(_, _, _)
ReachFrom(h, S, k) ==
  IF k = 0 THEN S ELSE ReachFrom(h, S \cup UNION {Succ(h, n) : n \in S}, k - 1)

Reachable(h, value) ==
  ReachFrom(h, IF value[1] = "object" THEN {value[2]} ELSE {}, MaxNodes)

SelfReferring(h, value) ==
  \E n \in Reachable(h, value) : n \in ReachFrom(h, Succ(h, n), MaxNodes)

HoldsBigInt(h, value) == \E n \in Reachable(h, value) : h[n].a = BigIntValue

RECURSIVE RotatedLines(_)
RotatedLines(t) == IF t > MaxTime THEN <<>> ELSE rotated[t].lines \o RotatedLines(t + 1)

\* Every line written so far, oldest first.
PersistedLines == RotatedLines(0) \o active.lines

\* C22: a logging call whose context refers to itself, directly or through
\* other objects, writes a line that holds the marker in place of the
\* repeated reference; a context that cannot be serialized for another
\* reason gives the fallback object; in both cases the call returns its
\* entry and the entry is stored.
C22_SerializationAlwaysYieldsLine ==
  /\ Len(PersistedLines) = Len(results)
  /\ \A i \in DOMAIN results :
       /\ Returned(i)
       /\ results[i].entry \in Range(logs[results[i].logger])
       /\ LET entry == results[i].entry
              line == PersistedLines[i].value
          IN IF HoldsBigInt(heap, entry.context)
             THEN line = Fallback
             ELSE /\ line.kind = "entry"
                  /\ line.operation = entry.operation
                  /\ line.message = entry.message
                  /\ line.environment = Obj(Leaf("s"), Omitted)
                  /\ SelfReferring(heap, entry.context) => HasMarker(line.context)

\* Object 1 refers to object 2 and object 2 back to object 1; a call whose
\* context is object 1 has returned and its line holds the marker.
C22_Witness ==
  /\ heap[1].a = Ref(2)
  /\ heap[2].a = Ref(1)
  /\ \E i \in DOMAIN results :
       /\ Returned(i)
       /\ results[i].entry.context = Ref(1)
       /\ HasMarker(PersistedLines[i].value.context)

\* The JSON form of each entry of an array, entry by entry.
JsonForms(entries) == [i \in 1..Len(entries) |-> safeStringifyObject(heap, entries[i])]

\* C23: getLogsForAI(filter) returns the JSON text of an array with one
\* element per entry getLogs(filter) returns, in the same order, each element
\* equal to the JSON form of its entry, environment object included.  Stated
\* for the stores whose entries each have a JSON form of their own.
C23_ExportEqualsGetLogs ==
  [][(/\ returned'.method = "getLogsForAI"
      /\ UNCHANGED <<logs, results>>
      /\ \A i \in DOMAIN getLogs(1) : ~HoldsBigInt(heap, getLogs(1)[i].context))
       => returned'.value =
            Array(JsonForms(filterLogs(getLogs(1), returned'.argument)))]_vars

\* str holds sub as a substring: str is a prefix, then sub, then a suffix.
Contains(str, sub) ==
  \E i \in 0..Len(str), j \in 1..(Len(str) + 1) :
    SubSeq(str, 1, i) \o sub \o SubSeq(str, j, Len(str)) = str

\* The positions of the store that a filter selects.
Selected(entries, operationFilter) ==
  {i \in DOMAIN entries :
     operationFilter \in {Undefined, ""} \/ Contains(entries[i].operation, operationFilter)}

\* items holds the entries at the positions of P, in the order of the store.
InStoreOrder(items, entries, P) ==
  /\ Len(items) = Cardinality(P)
  /\ \A i \in P : items[Cardinality({j \in P : j <= i})] = entries[i]

\* C24: getLogs(filter) returns the entries whose operation contains the
\* filter, in the order of the store, and all entries without a filter or
\* with an empty one; what its caller then does to the returned array does
\* not change the store.
C24_GetLogsIsolatedAndFiltered ==
  [][(returned'.method = "getLogs" /\ UNCHANGED results)
       => /\ InStoreOrder(returned'.value.items, getLogs(1),
                          Selected(getLogs(1), returned'.argument))
          /\ returned'.argument \in {Undefined, ""} => returned'.value.items = getLogs(1)
          /\ UNCHANGED logs]_vars

\* The store holds an "open" entry and an "x" entry; getLogs("pe") returned
\* the first alone, its caller emptied the array, and the store still holds
\* both.
C24_Witness ==
  /\ returned.method = "getLogs"
  /\ returned.argument = "pe"
  /\ Len(getLogs(1)) = 2
  /\ getLogs(1)[1].operation = "open"
  /\ getLogs(1)[2].operation = "x"
  /\ returned.value.items = <<getLogs(1)[1]>>
  /\ returned.left.items = <<>>

Constructed == returned.method = "constructor"

\* C25: constructing a logger throws when the resolved maxFileSizeMb is at
\* most 0 or the resolved maxMemoryLogs is below 0, and does not throw for
\* valid bounds, maxMemoryLogs = 0 included.
C25_ConstructorRejectsInvalidBounds ==
  Constructed =>
    /\ returned.value.kind \in {"logger", "thrown"}
    /\ returned.value.kind = "thrown" <=>
         (returned.value.config.maxFileSizeMb <= 0 \/ returned.value.config.maxMemoryLogs < 0)
    /\ \A k \in {"maxFileSizeMb", "maxMemoryLogs"} :
         k \in returned.argument.given =>
           returned.value.config[k] = returned.argument.values[k]

\* A logger was constructed with maxFileSizeMb: -1 while the environment
\* sets a valid size, and the constructor threw.
C25_Witness ==
  /\ Constructed
  /\ "maxFileSizeMb" \in returned.argument.given
  /\ returned.argument.values.maxFileSizeMb = -1
  /\ processEnv.VIBE_MAX_FILE_SIZE_MB = "5"
  /\ returned.value.kind = "thrown"

\* The values the claim gives as built-in defaults, and the readings of the
\* environment strings that are numbers or booleans beyond doubt.
ClaimedDefaults ==
  [autoSave |-> TRUE, maxFileSizeMb |-> 10, keepLogsInMemory |-> TRUE,
   maxMemoryLogs |-> 1000, createDirs |-> TRUE]

Decimal == ("5" :> 5) @@ ("0" :> 0) @@ ("-1" :> 0 - 1) @@ ("7" :> 7)

Truth == ("true" :> TRUE) @@ ("TRUE" :> TRUE) @@ ("false" :> FALSE)

Given(k) == k \in returned.argument.given

\* The resolved value of a boolean key, where the claim decides it.
BooleanResolved(k, v) ==
  (Given(k) \/ v = Undefined \/ v \in DOMAIN Truth) =>
    returned.value.config[k] =
      IF Given(k) THEN returned.argument.values[k]
      ELSE IF v # Undefined THEN Truth[v] ELSE ClaimedDefaults[k]

\* The resolved value of a numeric key whose valid overrides are >= lowest.
NumberResolved(k, v, lowest) ==
  returned.value.config[k] =
    IF Given(k) THEN returned.argument.values[k]
    ELSE IF v \in DOMAIN Decimal /\ Decimal[v] >= lowest THEN Decimal[v]
    ELSE ClaimedDefaults[k]

\* The resolved value of a string key: the merged value, or some non-empty
\* value when the merged value is empty.
StringResolved(k, v) ==
  LET merged == IF Given(k) THEN returned.argument.values[k]
                ELSE IF v # Undefined THEN v ELSE ""
  IN IF merged = "" THEN returned.value.config[k] # ""
     ELSE returned.value.config[k] = merged

\* C26: each configuration value is the constructor option when one is
\* given, otherwise the valid environment override, otherwise the default
\* (autoSave true, maxFileSizeMb 10, keepLogsInMemory true, maxMemoryLogs
\* 1000, createDirs true); an empty correlationId or logFile left after
\* merging is replaced by a non-empty generated value.
C26_ResolutionOrder ==
  Constructed =>
    /\ BooleanResolved("autoSave", processEnv.VIBE_AUTO_SAVE)
    /\ BooleanResolved("keepLogsInMemory", processEnv.VIBE_KEEP_LOGS_IN_MEMORY)
    /\ BooleanResolved("createDirs", processEnv.VIBE_CREATE_DIRS)
    /\ NumberResolved("maxFileSizeMb", processEnv.VIBE_MAX_FILE_SIZE_MB, 1)
    /\ NumberResolved("maxMemoryLogs", processEnv.VIBE_MAX_MEMORY_LOGS, 0)
    /\ StringResolved("correlationId", processEnv.VIBE_CORRELATION_ID)
    /\ StringResolved("logFile", processEnv.VIBE_LOG_FILE)

\* The environment switches auto-save off and sets an identifier; the
\* options switch auto-save on and give an empty identifier: the logger has
\* auto-save on, a generated identifier and the default size.
C26_Witness ==
  /\ Constructed
  /\ processEnv.VIBE_AUTO_SAVE = "false"
  /\ processEnv.VIBE_CORRELATION_ID = "env-id"
  /\ returned.argument.given = {"autoSave", "correlationId"}
  /\ returned.argument.values.autoSave
  /\ returned.argument.values.correlationId = ""
  /\ returned.value.kind = "logger"
  /\ returned.value.config.autoSave
  /\ returned.value.config.correlationId = generateCorrelationId
  /\ returned.value.config.maxFileSizeMb = 10

\* clearLogs has been called and every clear callback has run.
ClearSettled(l) ==
  /\ history.clears[l] > 0
  /\ \A i \in DOMAIN memoryMutex[l] : memoryMutex[l][i].type # "clear"

\* The stored calls that were submitted after the last clearLogs call.
AfterClear(l) == SelectSeq(Stored(l), LAMBDA c : c > history.cleared[l])

\* C27: once clearLogs has resolved, the store holds no entry submitted
\* before it was called and holds the newest maxMemoryLogs of the entries
\* submitted after it, whether or not the earlier calls were awaited.
C27_ClearEmptiesStore ==
  \A l \in Loggers :
    (config[l].keepLogsInMemory /\ history.loads[l] = 0 /\ ClearSettled(l)) =>
      /\ \A c \in Range(getLogs(l)) : c > history.cleared[l]
      /\ getLogs(l) = Newest(config[l].maxMemoryLogs, AfterClear(l))

\* Two entries were submitted before clearLogs and one after it; all
\* callbacks have run and the store holds the third entry alone.
C27_Witness ==
  /\ config[1].keepLogsInMemory
  /\ history.loads[1] = 0
  /\ ClearSettled(1)
  /\ history.cleared[1] = 2
  /\ Stored(1) = <<1, 2, 3>>
  /\ getLogs(1) = <<3>>

\* The entries of the valid lines of a file, in file order.
ValidEntries(file) ==
  LET valid == SelectSeq(file.lines, LAMBDA line : line[1] = "entry")
  IN IF file.exists THEN [i \in DOMAIN valid |-> valid[i][2]] ELSE <<>>

\* C28: loadLogsFromFile always gets as far as its store update: the lines
\* that are no JSON, that are JSON null or a number, or that lack a field
\* are skipped and the valid lines are kept in file order; the update
\* appends them, and leaves the store as it is for a missing file.
C28_LoadSkipsMalformedLines ==
  [][\A l \in Loggers :
       /\ loads'[l] < loads[l] =>
            /\ memoryMutex'[l] # <<>>
            /\ memoryMutex'[l][Len(memoryMutex'[l])] =
                 Task("load", 0, ValidEntries(history'.read[l]))
       /\ (/\ memoryMutex[l] # <<>>
           /\ Head(memoryMutex[l]).type = "load"
           /\ memoryMutex'[l] = Tail(memoryMutex[l]))
          => /\ Head(memoryMutex[l]).entries = <<>> => logs'[l] = logs[l]
             /\ Len(logs[l]) + Len(Head(memoryMutex[l]).entries) <= config[l].maxMemoryLogs
                  => logs'[l] = logs[l] \o Head(memoryMutex[l]).entries]_vars

\* A file whose lines are a valid entry, JSON null and another valid entry
\* was read, and the store holds the two entries in file order.
C28_Witness ==
  /\ history.read[1] = File(<<<<"entry", 11>>, <<"null", 0>>, <<"entry", 12>>>>)
  /\ loads[1] = 0
  /\ memoryMutex[1] = <<>>
  /\ getLogs(1) = <<11, 12>>

\* C29: the context of the entry logException returns holds every key of
\* the caller's context, error_type set to the normalized error name and
\* original_error set to the thrown value; these two win over caller keys
\* of the same name, and the caller's context object is left as it was.
C29_ExceptionContext ==
  returned.method = "logException" =>
    LET call == results[Len(results)]
        context == call.entry.context
        given == returned.argument
    IN /\ DOMAIN context = DOMAIN given \cup {"error_type", "original_error"}
       /\ context["error_type"] = ExpectedName(call.input)
       /\ context["original_error"] = call.input
       /\ \A k \in DOMAIN given \ {"error_type", "original_error"} : context[k] = given[k]
       /\ returned.left.context = given

\* logException was given the string "boom" and a context with the keys
\* userId and error_type; the entry's context holds the caller's userId and
\* the error name "StringError".
C29_Witness ==
  /\ returned.method = "logException"
  /\ DOMAIN returned.argument = {"userId", "error_type"}
  /\ results[Len(results)].input = StringError
  /\ results[Len(results)].entry.context["userId"] = "user-1"
  /\ results[Len(results)].entry.context["error_type"] = "StringError"
  /\ returned.argument["error_type"] = "mine"

\* C30: no step, clearCompletedQueues included, removes the queue of a key
\* whose last chained write has not settled, so at most one append to a
\* path is in progress at any time.
C30_ClearKeepsPendingQueues ==
  /\ [](Cardinality({c \in DOMAIN calls : InProgress(c)}) <= 1)
  /\ [][\A key \in DOMAIN writeQueues :
          ~settled(writeQueues[key]) => key \in DOMAIN writeQueues']_vars

\* How many lines of the sequence are x.
Count(x, lines) == Cardinality({i \in DOMAIN lines : lines[i] = x})

\* C31: rotation never loses a written line: the line of every call whose
\* append succeeded is in exactly one of the active file and the rotated
\* files, no step removes a line from these files, and a rename never
\* replaces a rotated file that already exists.
C31_RotationKeepsEveryLine ==
  /\ [](\A c \in DOMAIN calls : calls[c].wrote => Count(c, PersistedLines) = 1)
  /\ [][/\ \A x \in Range(PersistedLines) :
             Count(x, PersistedLines') >= Count(x, PersistedLines)
        /\ \A t \in Times :
             rotated[t].exists =>
               /\ rotated'[t].exists
               /\ Len(rotated'[t].lines) >= Len(rotated[t].lines)
               /\ SubSeq(rotated'[t].lines, 1, Len(rotated[t].lines)) = rotated[t].lines]_vars

\* C32: on a logger whose directory creation at construction succeeded, every
\* logging call whose persistence has finished has appended its line, also a
\* call issued before the directory creation completed.
C32_NoStartupLoss ==
  \A c \in DOMAIN calls :
    (ensureDir[calls[c].logger] = "ok" /\ calls[c].fpc = "done") => calls[c].wrote

\* C33: the write of saveAllLogs to the log file never runs while an append
\* to that file is in progress, and when it completes every line the file
\* held before is still in the file.
C33_SaveKeepsAppendedLines ==
  /\ [](\A l \in Loggers :
          saves[l].stage = "write" => \A c \in DOMAIN calls : ~InProgress(c))
  /\ [][\A l \in Loggers :
          (saves[l].stage = "write" /\ saves'[l].stage = "fulfilled") =>
            \A i \in DOMAIN active.lines : active.lines[i] \in Range(active'.lines)]_vars

\* C34: the line appended for a logging call is the rendering of the entry
\* with the context as it was when the call was made, whatever the caller
\* wrote to the context object before the line was serialized.
C34_LineReflectsContextAtCall ==
  [][(returned.method = "log" /\ returned'.method = "none" /\ active' # active) =>
       active'.lines[Len(active'.lines)] = JsonLine(history.atCall)]_vars

\* The write c was chained on has settled without writing its line.
BehindFailure(c) ==
  /\ calls[c].pred # 0
  /\ calls[calls[c].pred].fpc = "done"
  /\ ~calls[calls[c].pred].wrote

\* C35: a failed append does not block the queue of its path: the write
\* chained on it can run as soon as it has settled, a queued write starts
\* only after the write before it has settled, it opens the file whenever
\* the directory is writable at that moment, and a write that has opened
\* the file completes with its line written.
C35_FailedAppendDoesNotPoison ==
  /\ [](\A c \in DOMAIN calls :
          (calls[c].fpc = "queued" /\ BehindFailure(c) /\ microtasksDrained)
            => ENABLED FsOpen(c))
  /\ [][\A c \in DOMAIN calls :
          /\ (calls[c].fpc = "queued" /\ calls'[c].fpc # "queued") =>
               /\ calls[c].pred # 0 => calls[calls[c].pred].fpc = "done"
               /\ (dirExists /\ ~readOnly) => calls'[c].fpc = "write"
          /\ (calls[c].fpc = "write" /\ calls'[c].fpc = "done") => calls'[c].wrote]_vars

\* The directory turned read-only and writable again; an append failed and
\* the append chained on it has written its line into the log file.
C35_Witness ==
  \E c \in DOMAIN calls :
    /\ BehindFailure(c)
    /\ calls[c].wrote /\ c \in Range(active.lines)
    /\ history.envEvents = 2 /\ ~readOnly

Last(seq) == seq[Len(seq)]

\* C36: when the promise of a logging call has resolved, its add callback
\* has run and, with auto-save on, its rotation check and its append attempt
\* have completed; for a caller that awaits each call, getLogs() then ends
\* with the entry (store enabled with room for one entry) and, when the
\* append succeeded, the log file ends with its line.
C36_ResolvedMeansFinished ==
  \A c \in DOMAIN calls :
    LET l == calls[c].logger
    IN logResolves(calls[c]) =>
         /\ calls[c].mem = "done" /\ calls[c].fpc = "done"
         /\ config[l].autoSave => calls[c].ops >= 2
         /\ c = Len(calls) =>
              /\ memoryMutex[l] = <<>>
              /\ (config[l].keepLogsInMemory /\ config[l].maxMemoryLogs >= 1) =>
                   (getLogs(l) # <<>> /\ Last(getLogs(l)) = c)
              /\ calls[c].wrote => (active.exists /\ Last(active.lines) = c)

\* Two awaited calls have resolved: the first rotated the file and wrote its
\* line, the second wrote its line after it, and the store holds both.
C36_Witness ==
  /\ Len(calls) = 2 /\ logResolves(calls[1]) /\ logResolves(calls[2])
  /\ \E t \in Times : rotated[t].exists
  /\ active.lines = <<1, 2>> /\ getLogs(1) = <<1, 2>>

\* C37: a constructor that returns leaves a logger whose maxFileSizeMb is a
\* number above 0 and whose maxMemoryLogs is a number of at least 0, whatever
\* options were given.
C37_ConstructedHasValidBounds ==
  (Constructed /\ returned.value.kind = "logger") =>
    /\ returned.value.config.maxFileSizeMb # NaN
    /\ returned.value.config.maxFileSizeMb > 0
    /\ returned.value.config.maxMemoryLogs # NaN
    /\ returned.value.config.maxMemoryLogs >= 0

\* C38: a constructor that throws because validation failed has started no
\* filesystem operation: no directory creation is pending, no append is
\* queued, and the directory and the files are as they were.
C38_RejectedConfigTouchesNothing ==
  [][(returned'.method = "constructor" /\ returned.method = "none"
      /\ returned'.value.kind = "thrown") =>
       /\ ensureDir' = ensureDir /\ \A l \in Loggers : ensureDir'[l] # "pending"
       /\ UNCHANGED <<fsVars, queueVars, calls>>]_vars

\* The constructor threw for a configuration with auto-save and createDirs
\* on, which would have started the directory creation had it been valid.
C38_Witness ==
  /\ Constructed /\ returned.value.kind = "thrown"
  /\ returned.value.config.autoSave /\ returned.value.config.createDirs
  /\ returned.value.errors = {"maxFileSizeMb must be greater than 0"}

\* C39: on a logger constructed with auto-save off no directory creation is
\* started, no logging call makes a filesystem request or queues an append,
\* and no step changes the directory, the files or the write queues.
C39_AutoSaveOffTouchesNoFile ==
  /\ [](\A l \in {1} :
          (~config[l].autoSave /\ ensureDir[l] # "failed") =>
            /\ ensureDir[l] = "none"
            /\ \A c \in DOMAIN calls :
                 calls[c].logger = l =>
                   calls[c].ops = 0 /\ calls[c].fpc = "done" /\ ~calls[c].wrote)
  /\ [][(~config[1].autoSave /\ ensureDir[1] # "failed") =>
          UNCHANGED <<fsVars, queueVars, ensureDir>>]_vars

\* With auto-save off and a log file over the limit in place, MaxCalls
\* logging calls have resolved.
C39_Witness ==
  /\ ~config[1].autoSave /\ ensureDir[1] = "none"
  /\ Len(calls) = MaxCalls
  /\ \A c \in DOMAIN calls : logResolves(calls[c])
  /\ active = OldFile

\* An append to the log path is queued or being written.
AppendPending(c) == calls[c].fpc \in {"queued", "write"}

\* C40: a step removes the map entry of a path only when the clean-up timer
\* of an append fires, that append has completed and the entry is still that
\* append; and while an append to the path is pending the entry of the path
\* is the most recently queued append.
C40_TimerCleanupIsSafe ==
  /\ [](\A l \in Loggers :
          (\E c \in DOMAIN calls : AppendPending(c)) =>
            getQueue(QueueKey(config[l].logFile)) = Last(history.chainOrder))
  /\ [][\A key \in DOMAIN writeQueues :
          key \notin DOMAIN writeQueues' =>
            /\ timers # <<>> /\ timers' = Tail(timers)
            /\ writeQueues[key] = Head(timers)
            /\ calls[Head(timers)].fpc = "done"]_vars

\* The timer of a completed append has fired while a newer append chained on
\* it was pending, and the entry of the path is that newer append.
C40_Witness ==
  \E c, d \in DOMAIN calls :
    /\ calls[c].fpc = "done" /\ calls[c].ops >= 2 /\ c \notin Range(timers)
    /\ AppendPending(d) /\ calls[d].pred = c
    /\ getQueue(QueueKey(config[calls[d].logger].logFile)) = d

====
